---- MODULE Spec2Model ----
(***************************************************************************)
(* Verification model of the SDM-KMS knowledge-management client:          *)
(*   - services/geminiService (chunkText, processChunk,                    *)
(*     processDocumentIngestion, generateFileHash, streamGeminiResponse)   *)
(*   - App (document list, send handler, ingestion of uploads, wiki and    *)
(*     risk handlers, structured tools, snapshots)                         *)
(*   - FileUploader, and the Library, Chat, ConceptWiki and RiskRegister   *)
(*     views as far as they enable or disable an action                    *)
(*                                                                         *)
(* Strings are modelled exactly, in run-length form: a string is a         *)
(* sequence of runs [c |-> character, n |-> repeat count], with no empty   *)
(* run and no two adjacent runs of the same character, so that equal       *)
(* strings have equal representations and strings of 50000 characters      *)
(* stay small.  Indices are 0-based as in JavaScript.                      *)
(***************************************************************************)
EXTENDS Integers, Sequences, FiniteSets, TLC

VARIABLES
    \* --- chunker harness (pure function chunkText) ---
    ctext,          \* the input text
    cmax,           \* the chunkSize argument
    cpieces,        \* the returned array of pieces
    cdone,          \* chunkText has returned
    \* --- one run of processDocumentIngestion ---
    ipc,            \* position: "idle", "single", "loop", "await", "done"
    doc,            \* the LocalFile being ingested
    chunks,         \* const chunks = chunkText(file.content)
    results,        \* const results: ProcessedData[]
    inflight,       \* indices of the extraction calls issued and not yet completed
    issued,         \* log: chunk index of every extraction call, in issue order
    responses,      \* log: the model's response to every completed call
    ret,            \* value the promise resolved with
    raised,         \* the promise rejected (exception escaped to the caller)
    caught,         \* the outer catch block of processDocumentIngestion ran
    \* --- chat session manager and the App's document list ---
    files,          \* App state: files
    chatSession,    \* module-level chatSession (null or the Chat object)
    currentFileContextHash,
    created,        \* number of ai.chats.create calls so far
    spc,            \* position of streamGeminiResponse: "idle", "sent", "streaming"
    lastSend,       \* what the most recent send did
    \* --- concept graph (wiki) ---
    wikiCache,      \* App state: wikiCache, node name -> {entries, content, files}
    wikiPath,       \* App state: wikiPath
    expandPending,  \* node an AI expand is running for, or NoTerm
    wops,           \* number of updates that changed the graph so far
    lastOp,         \* log: the most recent graph or navigation operation
    \* --- parent suggestion ---
    sugPc,          \* position of handleWikiSuggestParent
    sugNodes,       \* existingNodes handed to suggestWikiParent
    sugCalls,       \* model calls issued by the current suggestion
    sugResp,        \* log: the model's response to that call
    sugRet,         \* value handleWikiSuggestParent resolved with
    \* --- risk register and snapshots ---
    riskData,       \* App state: riskData (null or the register)
    rendered,       \* "ok", "pending" after a state update, "crashed" once a render threw
    exported,       \* most recent file written by handleExportContext
    exportedFrom,   \* log: the state that file was written from
    lastImport,     \* log: what the most recent import did
    \* --- uploader and ingestion of the document list ---
    ingestCalls,    \* the ingestFile calls awaiting processDocumentIngestion
    processingIds,  \* the documents whose isProcessing flag is set
    lastUpload,     \* log: what the most recent processFiles batch did
    lastIngest,     \* log: the ingestFile call that returned last
    \* --- one-shot structured tools ---
    isLoading,      \* App state: isLoading, shared by the chat and every tool
    toolCall,       \* the runStructuredTool call in flight, or NoTool
    reportData,     \* App state: reportData
    emailData,      \* App state: emailData
    lastTool,       \* log: the runStructuredTool call that returned last
    \* --- chat view ---
    messages,       \* App state: messages
    sends           \* every streamGeminiResponse call made by handleSendMessage

chunkVars   == <<ctext, cmax, cpieces, cdone>>
ingestVars  == <<ipc, doc, chunks, results, inflight, issued, responses, ret, raised, caught>>
sessionVars == <<files, chatSession, currentFileContextHash, created, spc, lastSend>>
wikiVars    == <<wikiCache, wikiPath, expandPending, wops, lastOp>>
sugVars     == <<sugPc, sugNodes, sugCalls, sugResp, sugRet>>
appVars     == <<riskData, rendered, exported, exportedFrom, lastImport>>
libVars     == <<ingestCalls, processingIds, lastUpload, lastIngest>>
toolVars    == <<isLoading, toolCall, reportData, emailData, lastTool>>
chatVars    == <<messages, sends>>
vars        == <<chunkVars, ingestVars, sessionVars, wikiVars, sugVars, appVars,
                 libVars, toolVars, chatVars>>

(***************************************************************************)
(* Bounds                                                                  *)
(***************************************************************************)
MaxRuns      == 3      \* runs per generated text
MaxRun       == 6      \* longest run in a generated text
MaxChunkSize == 11     \* largest chunkSize argument tried

Min(a, b) == IF a <= b THEN a ELSE b
Max(a, b) == IF a >= b THEN a ELSE b

(***************************************************************************)
(* JavaScript strings                                                      *)
(***************************************************************************)
EmptyStr == << >>

Rep(ch, k) == IF k = 0 THEN EmptyStr ELSE << [c |-> ch, n |-> k] >>

RECURSIVE StrLen(_)
StrLen(s) == IF s = << >> THEN 0 ELSE Head(s).n + StrLen(Tail(s))

\* s + t
StrCat(s, t) ==
    IF s = << >> THEN t
    ELSE IF t = << >> THEN s
    ELSE IF s[Len(s)].c = t[1].c
         THEN SubSeq(s, 1, Len(s) - 1)
              \o << [c |-> t[1].c, n |-> s[Len(s)].n + t[1].n] >>
              \o Tail(t)
         ELSE s \o t

\* the string spelled by a sequence of characters
RECURSIVE StrOf(_)
StrOf(chars) ==
    IF chars = << >> THEN EmptyStr
    ELSE StrCat(Rep(Head(chars), 1), StrOf(Tail(chars)))

\* 0-based index of the first character of run k
RECURSIVE RunStart(_, _)
RunStart(s, k) == IF k = 1 THEN 0 ELSE RunStart(s, k - 1) + s[k - 1].n

\* s.slice(i, j) for 0 <= i <= j <= s.length
StrSlice(s, i, j) ==
    LET clip(k) == Min(RunStart(s, k) + s[k].n, j) - Max(RunStart(s, k), i)
        cut     == [k \in 1..Len(s) |-> [c |-> s[k].c, n |-> Max(clip(k), 0)]]
    IN  SelectSeq(cut, LAMBDA r : r.n > 0)

\* s.substring(0, k)
StrPrefix(s, k) == StrSlice(s, 0, Min(k, StrLen(s)))

\* s.lastIndexOf(ch, from): the largest index p <= from with s[p] = ch, or -1
StrLastIndexOf(s, ch, from) ==
    LET hits == { Min(RunStart(s, k) + s[k].n - 1, from) :
                    k \in { j \in 1..Len(s) : s[j].c = ch /\ RunStart(s, j) <= from } }
    IN  IF hits = {} THEN -1 ELSE CHOOSE p \in hits : \A q \in hits : q <= p

\* arr.join(sep) for an array of strings
RECURSIVE StrJoin(_, _)
StrJoin(arr, sep) ==
    IF arr = << >> THEN EmptyStr
    ELSE IF Len(arr) = 1 THEN arr[1]
    ELSE StrCat(StrCat(arr[1], sep), StrJoin(Tail(arr), sep))

RECURSIVE StrConcatAll(_)
StrConcatAll(arr) ==
    IF arr = << >> THEN EmptyStr ELSE StrCat(Head(arr), StrConcatAll(Tail(arr)))

NL     == "\n"
PERIOD == "."

(***************************************************************************)
(* chunkText                                                               *)
(***************************************************************************)
DEFAULT_CHUNK_SIZE == 50000

\* lastIndex > i + chunkSize * 0.8 : the product is a double, but since the
\* left side is an integer and floating-point rounding is monotonic, the
\* comparison agrees with the exact one.
BeyondFloorAnywhere(lastIndex, i, chunkSize) == lastIndex > i

BeyondFloor(lastIndex, i, chunkSize) == 10 * lastIndex > 10 * i + 8 * chunkSize

\* the value of `end` after the break-point search of one loop iteration
ChunkEnd(text, chunkSize, i) ==
    LET end         == Min(i + chunkSize, StrLen(text))
        lastNewline == StrLastIndexOf(text, NL, end)
        lastPeriod  == StrLastIndexOf(text, PERIOD, end)
    IN  IF end < StrLen(text)
        THEN IF BeyondFloor(lastNewline, i, chunkSize) THEN lastNewline + 1
             ELSE IF BeyondFloor(lastPeriod, i, chunkSize) THEN lastPeriod + 1
             ELSE end
        ELSE end

RECURSIVE ChunkLoop(_, _, _, _)
ChunkLoop(text, chunkSize, i, acc) ==
    IF i < StrLen(text)
    THEN LET end == ChunkEnd(text, chunkSize, i)
         IN  ChunkLoop(text, chunkSize, end, Append(acc, StrSlice(text, i, end)))
    ELSE acc

chunkTextDropsBreak(text, chunkSize) ==
    IF StrLen(text) <= chunkSize THEN << text >>
    ELSE LET all == ChunkLoop(text, chunkSize, 0, << >>)
         IN  [k \in 1..Len(all) |->
                IF k < Len(all) THEN StrPrefix(all[k], chunkSize) ELSE all[k]]

chunkTextAlwaysLoops(text, chunkSize) == ChunkLoop(text, chunkSize, 0, << >>)

chunkText(text, chunkSize) ==
    IF StrLen(text) <= chunkSize THEN << text >>
    ELSE ChunkLoop(text, chunkSize, 0, << >>)

(***************************************************************************)
(* Chunker harness: every text of at most MaxRuns runs over the three      *)
(* characters that matter to the break-point search.                       *)
(***************************************************************************)
Chars == {"a", NL, PERIOD}

RunSeqs == UNION { [1..k -> [c : Chars, n : 1..MaxRun]] : k \in 0..MaxRuns }

Texts == { s \in RunSeqs : \A k \in 1..(Len(s) - 1) : s[k].c # s[k + 1].c }

ChunkInit ==
    /\ ctext \in Texts
    /\ cmax \in 1..MaxChunkSize
    /\ cpieces = << >>
    /\ cdone = FALSE

CallChunkText ==
    /\ ~cdone
    /\ cpieces' = chunkText(ctext, cmax)
    /\ cdone' = TRUE
    /\ UNCHANGED <<ctext, cmax>>
    /\ UNCHANGED <<ingestVars, sessionVars, wikiVars, sugVars, appVars, libVars, toolVars, chatVars>>

(***************************************************************************)
(* ProcessedData and the values JSON.parse can produce                     *)
(*   [t |-> "obj",   o |-> f]  an object whose own properties are DOMAIN f *)
(*   [t |-> "null",  o |-> <<>>]  null                                     *)
(*   [t |-> "other", o |-> <<>>]  an array, string, number or boolean:     *)
(*                              none of the five properties is defined     *)
(***************************************************************************)
Fields == {"summary", "topics", "risks", "keyPoints", "entities"}

Obj(f)  == [t |-> "obj", o |-> f]
JNull   == [t |-> "null", o |-> << >>]
JOther  == [t |-> "other", o |-> << >>]
NoValue == [t |-> "none", o |-> << >>]

\* { summary: "", topics: [], risks: [], keyPoints: [], entities: [] }
EMPTY_RESULT ==
    Obj([summary |-> EmptyStr, topics |-> << >>, risks |-> << >>,
         keyPoints |-> << >>, entities |-> << >>])

ANALYSIS_FAILED ==
    StrOf(<<"A","n","a","l","y","s","i","s"," ","f","a","i","l","e","d",".">>)

\* the record returned by the catch block of processDocumentIngestion
PLACEHOLDER ==
    Obj([summary |-> ANALYSIS_FAILED, topics |-> << >>, risks |-> << >>,
         keyPoints |-> << >>, entities |-> << >>])

\* "...(Synthesized from multiple sections)"
SYNTH_MARKER ==
    StrOf(<<".",".",".","(","S","y","n","t","h","e","s","i","z","e","d"," ",
            "f","r","o","m"," ","m","u","l","t","i","p","l","e"," ",
            "s","e","c","t","i","o","n","s",")">>)

SUMMARY_CAP == 2000

SMALL_DOC_THRESHOLD == 60000

\* r.f is defined (not undefined)
Has(r, f) == r.t = "obj" /\ f \in DOMAIN r.o

\* r.f || []
ArrOf(r, f) == IF Has(r, f) THEN r.o[f] ELSE << >>

(***************************************************************************)
(* Responses of the model to one generateContent call                      *)
(***************************************************************************)
Throws  == [kind |-> "throws",  value |-> NoValue]   \* transport exception
NoText  == [kind |-> "notext",  value |-> NoValue]   \* response.text is empty
BadJson == [kind |-> "badjson", value |-> NoValue]   \* text that JSON.parse rejects
Json(v) == [kind |-> "json",    value |-> v]         \* text that parses to v

FailedResponses == {Throws, NoText, BadJson}

SampleSummaries == { EmptyStr, Rep("a", 999), Rep("b", 1000), Rep("a", 2001) }

R1 == [risk |-> "r1", category |-> "Legal"]
R2 == [risk |-> "r2", category |-> "Operational"]

SampleCollections ==
    { [topics |-> <<"A", "B">>, risks |-> <<R1>>, keyPoints |-> <<"k1">>,
       entities |-> <<"E1", "E1">>],
      [topics |-> <<"B", "C">>, risks |-> <<R1, R2>>, keyPoints |-> <<"k1">>,
       entities |-> <<"E1">>] }

WithSummary(f, s) == [x \in DOMAIN f \cup {"summary"} |-> IF x = "summary" THEN s ELSE f[x]]

SampleObjects ==
    { << >> }
    \cup { [summary |-> s] : s \in SampleSummaries }
    \cup SampleCollections
    \cup { WithSummary(f, s) : f \in SampleCollections, s \in SampleSummaries }

ModelResponses ==
    FailedResponses \cup {Json(JNull), Json(JOther)} \cup { Json(Obj(f)) : f \in SampleObjects }

(***************************************************************************)
(* processChunk: the try block returns EMPTY_RESULT when there is no text  *)
(* and JSON.parse(text) otherwise; the catch block returns EMPTY_RESULT.   *)
(***************************************************************************)
processChunk(resp) ==
    CASE resp.kind = "throws"  -> EMPTY_RESULT
      [] resp.kind = "notext"  -> EMPTY_RESULT
      [] resp.kind = "badjson" -> EMPTY_RESULT
      [] resp.kind = "json"    -> resp.value

(***************************************************************************)
(* Aggregation                                                             *)
(***************************************************************************)
RECURSIVE FlatMap(_, _)
FlatMap(rs, f) == IF rs = << >> THEN << >> ELSE ArrOf(Head(rs), f) \o FlatMap(Tail(rs), f)

\* Array.from(new Set(arr)): first occurrence of every value, in order
RECURSIVE Dedupe(_)
Dedupe(arr) ==
    IF arr = << >> THEN << >>
    ELSE LET init == Dedupe(SubSeq(arr, 1, Len(arr) - 1))
             last == arr[Len(arr)]
         IN  IF \E k \in 1..Len(init) : init[k] = last THEN init ELSE Append(init, last)

\* results.map(r => r.summary).filter(s => s)
RECURSIVE TruthySummaries(_)
TruthySummaries(rs) ==
    IF rs = << >> THEN << >>
    ELSE IF Has(Head(rs), "summary") /\ Head(rs).o.summary # EmptyStr
         THEN << Head(rs).o.summary >> \o TruthySummaries(Tail(rs))
         ELSE TruthySummaries(Tail(rs))

CapSummaryNoMarker(s) ==
    IF StrLen(s) > SUMMARY_CAP THEN StrPrefix(s, SUMMARY_CAP) ELSE s

\* if (summary.length > 2000) summary = summary.substring(0, 2000) + marker
CapSummary(s) ==
    IF StrLen(s) > SUMMARY_CAP THEN StrCat(StrPrefix(s, SUMMARY_CAP), SYNTH_MARKER) ELSE s

\* reading r.summary of null throws a TypeError
AggregateThrows(rs) == \E k \in 1..Len(rs) : rs[k].t = "null"

MergeTopicsNoSet(rs) == FlatMap(rs, "topics")

MergeTopics(rs) == Dedupe(FlatMap(rs, "topics"))

Aggregate(rs) ==
    Obj([summary   |-> CapSummary(StrJoin(TruthySummaries(rs), Rep(NL, 2))),
         topics    |-> MergeTopics(rs),
         risks     |-> FlatMap(rs, "risks"),
         keyPoints |-> FlatMap(rs, "keyPoints"),
         entities  |-> Dedupe(FlatMap(rs, "entities"))])

OuterCatchRethrows == [ret |-> NoValue, raised |-> TRUE]

\* catch (e) { return { summary: "Analysis failed.", ... } }
OuterCatch == [ret |-> PLACEHOLDER, raised |-> FALSE]

(***************************************************************************)
(* processDocumentIngestion as a process                                   *)
(***************************************************************************)
MaxChunks == 3      \* largest number of chunks of a generated document

DocContents ==
    { EmptyStr, Rep("a", SMALL_DOC_THRESHOLD - 1), Rep("a", SMALL_DOC_THRESHOLD),
      StrCat(Rep("a", DEFAULT_CHUNK_SIZE), StrCat(Rep(NL, 1), Rep("a", 20000))) }
    \cup { Rep("a", k * DEFAULT_CHUNK_SIZE) : k \in 2..MaxChunks }

Docs == [isPDF : BOOLEAN, content : DocContents]

IngestInit ==
    /\ ipc = "idle"
    /\ doc \in Docs
    /\ chunks = << >>
    /\ results = << >>
    /\ inflight = {}
    /\ issued = << >>
    /\ responses = << >>
    /\ ret = NoValue
    /\ raised = FALSE
    /\ caught = FALSE

\* lines 164-168: small or PDF document, one processChunk call on the whole content
IngestSingle ==
    /\ ipc = "idle"
    /\ doc.isPDF \/ StrLen(doc.content) < SMALL_DOC_THRESHOLD
    /\ ipc' = "single"
    /\ inflight' = {1}
    /\ issued' = <<1>>
    /\ UNCHANGED <<doc, chunks, results, responses, ret, raised, caught>>
    /\ UNCHANGED <<chunkVars, sessionVars, wikiVars, sugVars, appVars, libVars, toolVars, chatVars>>

\* line 168: return await processChunk(...)
SingleReturn ==
    /\ ipc = "single"
    /\ \E resp \in ModelResponses :
        /\ responses' = Append(responses, resp)
        /\ ret' = processChunk(resp)
    /\ inflight' = {}
    /\ ipc' = "done"
    /\ UNCHANGED <<doc, chunks, results, issued, raised, caught>>
    /\ UNCHANGED <<chunkVars, sessionVars, wikiVars, sugVars, appVars, libVars, toolVars, chatVars>>

\* lines 172-173
IngestChunked ==
    /\ ipc = "idle"
    /\ ~(doc.isPDF \/ StrLen(doc.content) < SMALL_DOC_THRESHOLD)
    /\ chunks' = chunkText(doc.content, DEFAULT_CHUNK_SIZE)
    /\ ipc' = "loop"
    /\ UNCHANGED <<doc, results, inflight, issued, responses, ret, raised, caught>>
    /\ UNCHANGED <<chunkVars, sessionVars, wikiVars, sugVars, appVars, libVars, toolVars, chatVars>>

LoopReadyNoAwait == ipc \in {"loop", "await"}

\* the for-of loop is at its head: the await of the previous iteration resumed
LoopReady == ipc = "loop"

\* line 177: the call of processChunk(chunk, false, file.name) for the next chunk
LoopIssue ==
    /\ LoopReady
    /\ Len(issued) < Len(chunks)
    /\ issued' = Append(issued, Len(issued) + 1)
    /\ inflight' = inflight \cup {Len(issued) + 1}
    /\ ipc' = "await"
    /\ UNCHANGED <<doc, chunks, results, responses, ret, raised, caught>>
    /\ UNCHANGED <<chunkVars, sessionVars, wikiVars, sugVars, appVars, libVars, toolVars, chatVars>>

\* lines 177-178: the awaited call completes and its result is pushed
LoopReturn ==
    /\ ipc = "await"
    /\ \E k \in inflight, resp \in ModelResponses :
        /\ inflight' = inflight \ {k}
        /\ responses' = Append(responses, resp)
        /\ results' = Append(results, processChunk(resp))
    /\ ipc' = "loop"
    /\ UNCHANGED <<doc, chunks, issued, ret, raised, caught>>
    /\ UNCHANGED <<chunkVars, sessionVars, wikiVars, sugVars, appVars, libVars, toolVars, chatVars>>

\* lines 181-196, and the catch block of lines 198-207 when aggregation throws
IngestAggregate ==
    /\ ipc = "loop"
    /\ Len(results) = Len(chunks)
    /\ IF AggregateThrows(results)
       THEN /\ ret' = OuterCatch.ret
            /\ raised' = OuterCatch.raised
            /\ caught' = TRUE
       ELSE /\ ret' = Aggregate(results)
            /\ UNCHANGED <<raised, caught>>
    /\ ipc' = "done"
    /\ UNCHANGED <<doc, chunks, results, inflight, issued, responses>>
    /\ UNCHANGED <<chunkVars, sessionVars, wikiVars, sugVars, appVars, libVars, toolVars, chatVars>>

(***************************************************************************)
(* Chat session manager (streamGeminiResponse) and the App's document list *)
(***************************************************************************)
MaxFiles    == 2      \* longest document list
MaxSessions == 3      \* chat sessions created in one behaviour

Digit(d) == CASE d = 0 -> "0" [] d = 1 -> "1" [] d = 2 -> "2" [] d = 3 -> "3"
              [] d = 4 -> "4" [] d = 5 -> "5" [] d = 6 -> "6" [] d = 7 -> "7"
              [] d = 8 -> "8" [] d = 9 -> "9"

\* `${n}` for a non-negative integer
RECURSIVE Decimal(_)
Decimal(k) ==
    IF k < 10 THEN Rep(Digit(k), 1)
    ELSE StrCat(Decimal(k \div 10), Rep(Digit(k % 10), 1))

\* files.map(f => `${f.name}-${f.size}`).join('|')
generateFileHash(fs) ==
    StrJoin([k \in 1..Len(fs) |-> StrCat(StrCat(fs[k].name, Rep("-", 1)), Decimal(fs[k].size))],
            Rep("|", 1))

\* the (name, size) pairs of a file list, in list order
Pairs(fs) == [k \in 1..Len(fs) |-> <<fs[k].name, fs[k].size>>]

NameA  == StrOf(<<"a", ".", "t", "x", "t">>)
NameB  == StrOf(<<"b", ".", "t", "x", "t">>)
NameAB == StrOf(<<"a", ".", "t", "x", "t", "-", "1", "|", "b", ".", "t", "x", "t">>)

\* the files a user may upload: two plain names, one of them in two sizes, and
\* a name that contains the characters the fingerprint uses as separators
UploadedFiles ==
    { [name |-> NameA, size |-> 1], [name |-> NameB, size |-> 1],
      [name |-> NameAB, size |-> 1] }

\* a LocalFile as the uploader hands it over: no processedData yet
LocalFiles == { [name |-> f.name, size |-> f.size, processed |-> FALSE] : f \in UploadedFiles }

\* names of the files that carry processedData: files.filter(f => f.processedData)
ProcessedNames(fs) ==
    LET pf == SelectSeq(fs, LAMBDA f : f.processed)
    IN  [k \in 1..Len(pf) |-> pf[k].name]

getSystemInstructionAllProcessed(fs) ==
    IF Len(fs) > 0 /\ Len(ProcessedNames(fs)) = Len(fs)
    THEN [kind |-> "summaries", listed |-> ProcessedNames(fs)]
    ELSE [kind |-> "generic", listed |-> << >>]

\* the instruction text, reduced to which of its two forms it takes and, for
\* the summary form, the files whose "- File: ... Summary: ..." lines it has
getSystemInstruction(fs) ==
    IF Len(ProcessedNames(fs)) > 0
    THEN [kind |-> "summaries", listed |-> ProcessedNames(fs)]
    ELSE [kind |-> "generic", listed |-> << >>]

NoInstruction == [kind |-> "none", listed |-> << >>]

NullSession == [id |-> 0, seed |-> << >>, sys |-> NoInstruction]

NoSend == [reused |-> FALSE, hadSession |-> FALSE, pairs |-> << >>,
           hash |-> EmptyStr, seedBefore |-> << >>, idBefore |-> 0,
           files |-> << >>, sessionBefore |-> NullSession]

SessionInit ==
    /\ files = << >>
    /\ chatSession = NullSession
    /\ currentFileContextHash = EmptyStr
    /\ created = 0
    /\ spc = "idle"
    /\ lastSend = NoSend

\* handleAddFiles: setFiles(prev => [...prev, ...newFiles])
handleAddFiles ==
    /\ rendered = "ok"
    /\ spc # "sent"
    /\ Len(files) < MaxFiles
    /\ \E f \in LocalFiles : files' = Append(files, f)
    /\ UNCHANGED <<chatSession, currentFileContextHash, created, spc, lastSend>>
    /\ UNCHANGED <<chunkVars, ingestVars, wikiVars, sugVars, appVars, libVars, toolVars, chatVars>>

\* handleRemoveFile: prev.filter(f => f.id !== id)
handleRemoveFile ==
    /\ rendered = "ok"
    /\ spc # "sent"
    /\ \E i \in 1..Len(files) :
         files' = SubSeq(files, 1, i - 1) \o SubSeq(files, i + 1, Len(files))
    /\ UNCHANGED <<chatSession, currentFileContextHash, created, spc, lastSend>>
    /\ UNCHANGED <<chunkVars, ingestVars, wikiVars, sugVars, appVars, libVars, toolVars, chatVars>>

\* ingestFile, lines 58-65: ingestion of a listed file completes and its
\* processedData is stored
ingestFileSuccess ==
    /\ spc # "sent"
    /\ \E i \in 1..Len(files) :
         /\ ~files[i].processed
         /\ files' = [files EXCEPT ![i].processed = TRUE]
    /\ UNCHANGED <<chatSession, currentFileContextHash, created, spc, lastSend>>
    /\ UNCHANGED <<chunkVars, ingestVars, wikiVars, sugVars, appVars, libVars, toolVars, chatVars>>

\* !chatSession || fileHash !== currentFileContextHash
NeedsNewSession(fs) ==
    chatSession.id = 0 \/ generateFileHash(fs) # currentFileContextHash

\* lines 266-289: pick or create the session, then open the stream
SendStart ==
    /\ spc = "idle"
    /\ NeedsNewSession(files) => created < MaxSessions
    /\ IF NeedsNewSession(files)
       THEN /\ chatSession' = [id |-> created + 1, seed |-> Pairs(files),
                               sys |-> getSystemInstruction(files)]
            /\ currentFileContextHash' = generateFileHash(files)
            /\ created' = created + 1
       ELSE UNCHANGED <<chatSession, currentFileContextHash, created>>
    /\ lastSend' = [reused |-> ~NeedsNewSession(files),
                    hadSession |-> chatSession.id # 0,
                    pairs |-> Pairs(files),
                    hash |-> generateFileHash(files),
                    seedBefore |-> chatSession.seed,
                    idBefore |-> chatSession.id,
                    files |-> files,
                    sessionBefore |-> chatSession]
    /\ spc' = "sent"
    /\ UNCHANGED files
    /\ UNCHANGED <<chunkVars, ingestVars, wikiVars, sugVars, appVars, libVars, toolVars, chatVars>>

\* line 290: the first await of streamGeminiResponse; up to here the call ran
\* synchronously, so no other handler ran since SendStart
SendAwait ==
    /\ spc = "sent"
    /\ spc' = "streaming"
    /\ lastSend' = NoSend
    /\ UNCHANGED <<files, chatSession, currentFileContextHash, created>>
    /\ UNCHANGED <<chunkVars, ingestVars, wikiVars, sugVars, appVars, libVars, toolVars, chatVars>>

\* line 296: the stream ends and onComplete is called
StreamComplete ==
    /\ spc = "streaming"
    /\ spc' = "idle"
    /\ UNCHANGED <<files, chatSession, currentFileContextHash, created, lastSend>>
    /\ UNCHANGED <<chunkVars, ingestVars, wikiVars, sugVars, appVars, libVars, toolVars, chatVars>>

\* lines 298-301: sendMessageStream or the stream throws and onError is called
StreamError ==
    /\ spc = "streaming"
    /\ spc' = "idle"
    /\ UNCHANGED <<files, chatSession, currentFileContextHash, created, lastSend>>
    /\ UNCHANGED <<chunkVars, ingestVars, wikiVars, sugVars, appVars, libVars, toolVars, chatVars>>

\* resetChatSession
resetChatSession ==
    /\ spc = "idle"
    /\ chatSession.id # 0
    /\ chatSession' = NullSession
    /\ currentFileContextHash' = EmptyStr
    /\ UNCHANGED <<files, created, spc, lastSend>>
    /\ UNCHANGED <<chunkVars, ingestVars, wikiVars, sugVars, appVars, libVars, toolVars, chatVars>>

(***************************************************************************)
(* One-shot structured generation (generateStructuredResponse) and the     *)
(* state runStructuredTool works on.  An error message is a sequence of    *)
(* text fragments, so that a template string is a concatenation.           *)
(***************************************************************************)
MSG_SAFETY     == << "The model blocked the response due to safety settings." >>
MSG_MAX_TOKENS == << "The model ran out of tokens. The response was too long." >>
MSG_STOPPED    == << "Model stopped generating. Reason: " >>
MSG_NO_DATA    == << "No data returned from model." >>
MSG_DEFAULT    == << "Failed to generate structured data." >>

\* candidate.finishReason of a response without text; "" when the response
\* has no candidate or no finishReason
FinishReasons == {"SAFETY", "MAX_TOKENS", "RECITATION", ""}

\* what generateContent followed by JSON.parse can do: throw with some
\* message (possibly empty), answer without text, answer with text that is
\* not JSON, or answer with JSON
StructResponses ==
    { [kind |-> "throws", reason |-> "", message |-> m] : m \in {<< >>, << "fetch failed" >>} }
    \cup { [kind |-> "notext", reason |-> r, message |-> << >>] : r \in FinishReasons }
    \cup { [kind |-> "badjson", reason |-> "", message |-> << "Unexpected token" >>],
           [kind |-> "json", reason |-> "", message |-> << >>] }

NoTextMessageUnclassified(finishReason) == MSG_NO_DATA

\* the error thrown when response.text is empty
NoTextMessage(finishReason) ==
    IF finishReason # ""
    THEN IF finishReason = "SAFETY" THEN MSG_SAFETY
         ELSE IF finishReason = "MAX_TOKENS" THEN MSG_MAX_TOKENS
         ELSE MSG_STOPPED \o << finishReason >>
    ELSE MSG_NO_DATA

\* whether the promise resolves (with the parsed JSON) or rejects, and the
\* message of the Error it rejects with: err.message || "Failed to ..."
generateStructuredResponse(resp) ==
    LET thrown == IF resp.kind = "notext" THEN NoTextMessage(resp.reason)
                  ELSE resp.message
    IN  IF resp.kind = "json" THEN [ok |-> TRUE, message |-> << >>]
        ELSE [ok |-> FALSE,
              message |-> IF thrown = << >> THEN MSG_DEFAULT ELSE thrown]

\* useState<RiskAnalysisData | null>(null)
NullRisk == [t |-> "null", risks |-> << >>, gapAnalysis |-> << >>]

\* useState<ReportData | null>(null), useState<EmailDraft | null>(null)
NullOutput == "null"

NoTool == "none"

Outputs == [report |-> reportData, email |-> emailData, risk |-> riskData]

NoToolLog == [tool |-> NoTool, resp |-> [kind |-> "", reason |-> "", message |-> << >>],
              ok |-> TRUE, logged |-> << >>,
              before |-> [report |-> NullOutput, email |-> NullOutput, risk |-> NullRisk]]

ToolInit ==
    /\ isLoading = FALSE
    /\ toolCall = NoTool
    /\ reportData = NullOutput
    /\ emailData = NullOutput
    /\ lastTool = NoToolLog

(***************************************************************************)
(* Concept graph (App.tsx wiki handlers, ConceptWiki component).           *)
(* wikiCache is a function from node names to node records; a name outside *)
(* its domain is a key the object does not have.                           *)
(***************************************************************************)
MaxWikiOps == 3      \* graph updates in one behaviour
MaxDepth   == 3      \* longest navigation path

ROOT == "ROOT"

\* node names a user or the model can come up with
Terms == {ROOT, "A", "B"}

Definitions == {"d"}

NoTerm == "<none>"

\* useState<WikiCache>({})
EmptyCache == [t \in {} |-> 0]

\* { entries: [], content: '', files: [] }
EmptyNode == [entries |-> << >>, content |-> "", files |-> << >>]

\* prev[t] is truthy
HasNode(c, t) == t \in DOMAIN c

\* prev[t] || { entries: [], content: '', files: [] }
NodeOr(c, t) == IF HasNode(c, t) THEN c[t] ELSE EmptyNode

\* { ...c, [t]: n }
Put(c, t, n) == [x \in DOMAIN c \cup {t} |-> IF x = t THEN n ELSE c[x]]

ManualEntry(term, definition) ==
    [term |-> term, definition |-> definition,
     relatedContext |-> [kind |-> "manual", from |-> NoTerm]]

MovedEntry(term, definition, currentParent) ==
    [term |-> term, definition |-> definition,
     relatedContext |-> [kind |-> "moved", from |-> currentParent]]

AIEntry(term) ==
    [term |-> term, definition |-> "d",
     relatedContext |-> [kind |-> "ai", from |-> NoTerm]]

\* entries.some(e => e.term === term)
Lists(node, term) == \E k \in 1..Len(node.entries) : node.entries[k].term = term

\* entries.filter(e => e.term !== term)
Without(entries, term) == SelectSeq(entries, LAMBDA e : e.term # term)

AddManualEntryParentLast(prev, term, definition, parentNode) ==
    LET targetParent == IF HasNode(prev, parentNode) THEN parentNode ELSE ROOT
        node         == NodeOr(prev, targetParent)
        newTermNode  == IF HasNode(prev, term) THEN prev[term]
                        ELSE [entries |-> << >>, content |-> definition, files |-> << >>]
    IN  Put(Put(prev, term, newTermNode),
            targetParent,
            [node EXCEPT !.entries = Append(node.entries, ManualEntry(term, definition))])

\* the updater of handleWikiAddManualEntry; in the object literal the key
\* [term] comes after [targetParent] and wins when the two are equal
AddManualEntry(prev, term, definition, parentNode) ==
    LET targetParent == IF HasNode(prev, parentNode) THEN parentNode ELSE ROOT
        node         == NodeOr(prev, targetParent)
        newTermNode  == IF HasNode(prev, term) THEN prev[term]
                        ELSE [entries |-> << >>, content |-> definition, files |-> << >>]
    IN  Put(Put(prev, targetParent,
                [node EXCEPT !.entries = Append(node.entries, ManualEntry(term, definition))]),
            term, newTermNode)

MoveNodeKeepsOld(prev, currentParent, term, definition, newParent) ==
    IF currentParent = newParent THEN prev
    ELSE LET newParentNode == NodeOr(prev, newParent)
         IN  IF Lists(newParentNode, term) THEN prev
             ELSE Put(prev, newParent,
                      [newParentNode EXCEPT !.entries =
                          Append(newParentNode.entries, MovedEntry(term, definition, currentParent))])

MoveNodeNoDupeCheck(prev, currentParent, term, definition, newParent) ==
    IF currentParent = newParent THEN prev
    ELSE LET oldParentNode == prev[currentParent]
             newParentNode == NodeOr(prev, newParent)
         IN  Put(Put(prev, currentParent,
                     [oldParentNode EXCEPT !.entries = Without(oldParentNode.entries, term)]),
                 newParent,
                 [newParentNode EXCEPT !.entries =
                     Append(newParentNode.entries, MovedEntry(term, definition, currentParent))])

\* handleWikiMoveNode: the early return and the updater
MoveNode(prev, currentParent, term, definition, newParent) ==
    IF currentParent = newParent THEN prev
    ELSE LET oldParentNode == prev[currentParent]
             newParentNode == NodeOr(prev, newParent)
         IN  IF Lists(newParentNode, term) THEN prev
             ELSE Put(Put(prev, currentParent,
                          [oldParentNode EXCEPT !.entries = Without(oldParentNode.entries, term)]),
                      newParent,
                      [newParentNode EXCEPT !.entries =
                          Append(newParentNode.entries, MovedEntry(term, definition, currentParent))])

\* wikiPath[wikiPath.length - 1]
CurrentTerm == wikiPath[Len(wikiPath)]

\* currentWikiNode?.entries || []
CurrentEntries == NodeOr(wikiCache, CurrentTerm).entries

BackAlwaysPops(path) == SubSeq(path, 1, Len(path) - 1)

\* handleWikiBack: if (wikiPath.length > 1) prev.slice(0, -1)
Back(path) == IF Len(path) > 1 THEN SubSeq(path, 1, Len(path) - 1) ELSE path

\* entry lists the model returns for an expand
AIEntryLists == { << >>, <<AIEntry("A")>>, <<AIEntry("A"), AIEntry("B")>> }

NoOp == [op |-> "none", term |-> NoTerm, parent |-> NoTerm, definition |-> "",
         cacheBefore |-> EmptyCache, pathBefore |-> <<ROOT>>]

Op(name, term, parent, definition) ==
    [op |-> name, term |-> term, parent |-> parent, definition |-> definition,
     cacheBefore |-> wikiCache, pathBefore |-> wikiPath]

WikiInit ==
    /\ wikiCache = EmptyCache
    /\ wikiPath = <<ROOT>>
    /\ expandPending = NoTerm
    /\ wops = 0
    /\ lastOp = NoOp

\* the Add Node dialog: a free-text term, a parent picked among ROOT and the
\* names of the existing nodes
handleWikiAddManualEntry ==
    /\ rendered = "ok"
    /\ wops < MaxWikiOps
    /\ \E term \in Terms, definition \in Definitions, parentNode \in {ROOT} \cup DOMAIN wikiCache :
         /\ wikiCache' = AddManualEntry(wikiCache, term, definition, parentNode)
         /\ lastOp' = Op("add", term, parentNode, definition)
    /\ wops' = wops + 1
    /\ UNCHANGED <<wikiPath, expandPending>>
    /\ UNCHANGED <<chunkVars, ingestVars, sessionVars, sugVars, appVars, libVars, toolVars, chatVars>>

\* the Move dialog: an entry of the node on display, a parent picked among
\* ROOT and the names of the existing nodes other than the entry's own
handleWikiMoveNode ==
    /\ rendered = "ok"
    /\ wops < MaxWikiOps
    /\ \E k \in 1..Len(CurrentEntries) :
         \E newParent \in {ROOT} \cup (DOMAIN wikiCache \ {CurrentEntries[k].term}) :
            /\ wikiCache' = MoveNode(wikiCache, CurrentTerm, CurrentEntries[k].term,
                                     CurrentEntries[k].definition, newParent)
            /\ lastOp' = Op("move", CurrentEntries[k].term, newParent, CurrentEntries[k].definition)
    /\ wops' = IF wikiCache' = wikiCache THEN wops ELSE wops + 1
    /\ UNCHANGED <<wikiPath, expandPending>>
    /\ UNCHANGED <<chunkVars, ingestVars, sessionVars, sugVars, appVars, libVars, toolVars, chatVars>>

\* a click on an entry of the node on display
handleWikiDrillDown ==
    /\ rendered = "ok"
    /\ Len(wikiPath) < MaxDepth
    /\ \E k \in 1..Len(CurrentEntries) :
         LET term == CurrentEntries[k].term
         IN  /\ wikiPath' = Append(wikiPath, term)
             /\ wikiCache' = IF HasNode(wikiCache, term) THEN wikiCache
                             ELSE Put(wikiCache, term, EmptyNode)
             /\ lastOp' = Op("drill", term, CurrentTerm, "")
    /\ UNCHANGED <<expandPending, wops>>
    /\ UNCHANGED <<chunkVars, ingestVars, sessionVars, sugVars, appVars, libVars, toolVars, chatVars>>

handleWikiBack ==
    /\ rendered = "ok"
    /\ wikiPath' = Back(wikiPath)
    /\ lastOp' = Op("back", NoTerm, NoTerm, "")
    /\ UNCHANGED <<wikiCache, expandPending, wops>>
    /\ UNCHANGED <<chunkVars, ingestVars, sessionVars, sugVars, appVars, libVars, toolVars, chatVars>>

handleWikiHome ==
    /\ rendered = "ok"
    /\ wikiPath' = <<ROOT>>
    /\ lastOp' = Op("home", NoTerm, NoTerm, "")
    /\ UNCHANGED <<wikiCache, expandPending, wops>>
    /\ UNCHANGED <<chunkVars, ingestVars, sessionVars, sugVars, appVars, libVars, toolVars, chatVars>>

\* the wiki's Generate button is disabled while isLoading is set.
\* handleWikiGenerate up to the await inside runStructuredTool: the node on
\* display is captured and isLoading is set
WikiGenerateStart ==
    /\ rendered = "ok"
    /\ ~isLoading
    /\ expandPending = NoTerm
    /\ toolCall = NoTool
    /\ wops < MaxWikiOps
    /\ expandPending' = CurrentTerm
    /\ lastOp' = Op("expandStart", CurrentTerm, NoTerm, "")
    /\ isLoading' = TRUE
    /\ lastTool' = NoToolLog
    /\ UNCHANGED <<wikiCache, wikiPath, wops>>
    /\ UNCHANGED <<toolCall, reportData, emailData>>
    /\ UNCHANGED <<chunkVars, ingestVars, sessionVars, sugVars, appVars, libVars, chatVars>>

ExpandApplyDropsNotes(prev, currentTerm, data) ==
    Put(prev, currentTerm, [entries |-> data, content |-> "", files |-> << >>])

\* the updater handed to setWikiCache by handleWikiGenerate's onSuccess
ExpandApply(prev, currentTerm, data) ==
    Put(prev, currentTerm,
        [entries |-> data,
         content |-> NodeOr(prev, currentTerm).content,
         files   |-> NodeOr(prev, currentTerm).files])

\* generateStructuredResponse resolves: onSuccess(data), then the finally
WikiGenerateSuccess ==
    /\ rendered = "ok"
    /\ expandPending # NoTerm
    /\ \E data \in AIEntryLists :
         /\ \E resp \in StructResponses : generateStructuredResponse(resp).ok
         /\ wikiCache' = ExpandApply(wikiCache, expandPending, data)
    /\ lastOp' = Op("expand", expandPending, NoTerm, "")
    /\ expandPending' = NoTerm
    /\ wops' = wops + 1
    /\ isLoading' = FALSE
    /\ UNCHANGED wikiPath
    /\ UNCHANGED <<toolCall, reportData, emailData, lastTool>>
    /\ UNCHANGED <<chunkVars, ingestVars, sessionVars, sugVars, appVars, libVars, chatVars>>

\* generateStructuredResponse rejects: runStructuredTool's catch logs the
\* message, nothing is stored, then the finally
WikiGenerateFailure ==
    /\ rendered = "ok"
    /\ expandPending # NoTerm
    /\ \E resp \in StructResponses : ~generateStructuredResponse(resp).ok
    /\ lastOp' = Op("expandFailed", expandPending, NoTerm, "")
    /\ expandPending' = NoTerm
    /\ isLoading' = FALSE
    /\ UNCHANGED <<wikiCache, wikiPath, wops>>
    /\ UNCHANGED <<toolCall, reportData, emailData, lastTool>>
    /\ UNCHANGED <<chunkVars, ingestVars, sessionVars, sugVars, appVars, libVars, chatVars>>

NoteTexts == {"n"}

handleWikiUpdateContent ==
    /\ rendered = "ok"
    /\ wops < MaxWikiOps
    /\ \E content \in NoteTexts :
         wikiCache' = Put(wikiCache, CurrentTerm,
                          [entries |-> NodeOr(wikiCache, CurrentTerm).entries,
                           content |-> content,
                           files   |-> NodeOr(wikiCache, CurrentTerm).files])
    /\ lastOp' = Op("notes", CurrentTerm, NoTerm, "")
    /\ wops' = wops + 1
    /\ UNCHANGED <<wikiPath, expandPending>>
    /\ UNCHANGED <<chunkVars, ingestVars, sessionVars, sugVars, appVars, libVars, toolVars, chatVars>>

\* a document of the library is attached to the node on display
handleWikiAddFile ==
    /\ rendered = "ok"
    /\ wops < MaxWikiOps
    /\ \E i \in 1..Len(files) :
         wikiCache' = Put(wikiCache, CurrentTerm,
                          [entries |-> NodeOr(wikiCache, CurrentTerm).entries,
                           content |-> NodeOr(wikiCache, CurrentTerm).content,
                           files   |-> Append(NodeOr(wikiCache, CurrentTerm).files, files[i].name)])
    /\ lastOp' = Op("attach", CurrentTerm, NoTerm, "")
    /\ wops' = wops + 1
    /\ UNCHANGED <<wikiPath, expandPending>>
    /\ UNCHANGED <<chunkVars, ingestVars, sessionVars, sugVars, appVars, libVars, toolVars, chatVars>>

(***************************************************************************)
(* Parent suggestion (suggestWikiParent, handleWikiSuggestParent)          *)
(***************************************************************************)
Undefined == "<undefined>"

\* a name the model makes up that is no node of the graph
Stranger == "Z"

\* what JSON.parse gives for the text of a suggestion response
SuggestionObjects ==
    {Obj([suggestedParent |-> t]) : t \in Terms \cup {Stranger}} \cup {Obj(<< >>)}

SuggestResponses ==
    FailedResponses \cup {Json(JNull), Json(JOther)} \cup {Json(o) : o \in SuggestionObjects}

\* { suggestedParent: 'ROOT', reasoning: ... }
RootSuggestion == Obj([suggestedParent |-> ROOT])

\* existingNodes.length <= 1
TooFewNodes(existingNodes) == Cardinality(existingNodes) <= 1

\* the value suggestWikiParent resolves with; resp is the model's response
\* when a call is made
suggestWikiParent(existingNodes, resp) ==
    IF TooFewNodes(existingNodes) THEN RootSuggestion
    ELSE IF resp.kind \in {"throws", "badjson"} THEN RootSuggestion
    ELSE IF resp.kind = "notext" THEN RootSuggestion
    ELSE resp.value

\* result.suggestedParent, or 'ROOT' from the catch when reading it throws
SuggestedParentOf(result) ==
    IF result = JNull THEN ROOT
    ELSE IF Has(result, "suggestedParent") THEN result.o["suggestedParent"]
    ELSE Undefined

NoResponse == [kind |-> "none", value |-> NoValue]

SuggestInit ==
    /\ sugPc = "idle"
    /\ sugNodes = {}
    /\ sugCalls = 0
    /\ sugResp = NoResponse
    /\ sugRet = Undefined

\* handleWikiSuggestParent up to the await: existingNodes = Object.keys(wikiCache),
\* and suggestWikiParent up to its own await or early return
SuggestStart ==
    /\ rendered = "ok"
    /\ sugPc \in {"idle", "done"}
    /\ sugPc' = "awaiting"
    /\ sugNodes' = DOMAIN wikiCache
    /\ sugCalls' = IF TooFewNodes(DOMAIN wikiCache) THEN 0 ELSE 1
    /\ sugResp' = NoResponse
    /\ sugRet' = Undefined
    /\ isLoading' = TRUE
    /\ UNCHANGED <<toolCall, reportData, emailData, lastTool>>
    /\ UNCHANGED <<chunkVars, ingestVars, sessionVars, wikiVars, appVars, libVars, chatVars>>

\* the await resolves and handleWikiSuggestParent returns through its finally
SuggestReturn ==
    /\ sugPc = "awaiting"
    /\ \E resp \in (IF sugCalls = 0 THEN {NoResponse} ELSE SuggestResponses) :
         /\ sugResp' = resp
         /\ sugRet' = SuggestedParentOf(suggestWikiParent(sugNodes, resp))
    /\ sugPc' = "done"
    /\ isLoading' = FALSE
    /\ UNCHANGED <<sugNodes, sugCalls>>
    /\ UNCHANGED <<toolCall, reportData, emailData, lastTool>>
    /\ UNCHANGED <<chunkVars, ingestVars, sessionVars, wikiVars, appVars, libVars, chatVars>>

(***************************************************************************)
(* Risk register and snapshot export / import                              *)
(***************************************************************************)
MaxRisks == 1      \* risks added by hand in one behaviour

Register(risks) == [t |-> "obj", risks |-> risks, gapAnalysis |-> << >>]

\* the RiskItem of handleAddRiskFromLibrary; the uuid is the item's number
NewRisk(n) ==
    [id |-> n, source |-> NameA, riskDescription |-> "r", category |-> "General",
     probability |-> 3, impact |-> 3, mitigationStrategy |-> "To be determined"]

handleAddRiskFromLibrary ==
    /\ rendered = "ok"
    /\ Len(riskData.risks) < MaxRisks
    /\ riskData' = [t |-> "obj",
                    risks |-> Append(riskData.risks, NewRisk(Len(riskData.risks) + 1)),
                    gapAnalysis |-> riskData.gapAnalysis]
    /\ lastTool' = NoToolLog
    /\ UNCHANGED <<rendered, exported, exportedFrom, lastImport>>
    /\ UNCHANGED <<isLoading, toolCall, reportData, emailData>>
    /\ UNCHANGED <<chunkVars, ingestVars, sessionVars, wikiVars, sugVars, libVars, chatVars>>

\* the kinds of value a JSON text can hold in one place
JKinds == {"object", "array", "string", "number", "boolean", "null", "absent"}

JVal(k, v) == [k |-> k, v |-> v]

NoPayload == << >>

\* wikiCache after setWikiCache(null)
NullCache == [t \in {"<null>"} |-> 0]

\* what JSON.parse of the file gives: the top-level value and, for an object,
\* its files, wiki and riskData members
ObjDoc(f, w, r) == [top |-> "object", files |-> f, wiki |-> w, riskData |-> r]

AbsentVal == JVal("absent", NoPayload)

BadJsonDoc == [top |-> "badjson", files |-> AbsentVal, wiki |-> AbsentVal, riskData |-> AbsentVal]

NullDoc == [top |-> "null", files |-> AbsentVal, wiki |-> AbsentVal, riskData |-> AbsentVal]

NoDoc == [top |-> "none", files |-> AbsentVal, wiki |-> AbsentVal, riskData |-> AbsentVal]

\* JSON.stringify(contextData) read back by JSON.parse: null stays null, a
\* member that is undefined is dropped
ExportDoc(fs, wc, rd) ==
    ObjDoc(JVal("array", fs),
           JVal("object", wc),
           IF rd = NullRisk THEN JVal("null", NoPayload) ELSE JVal("object", rd))

SampleFiles == <<[name |-> NameB, size |-> 1, processed |-> FALSE]>>

SampleCache ==
    Put(Put(Put(EmptyCache, ROOT, [EmptyNode EXCEPT !.entries = <<AIEntry("A")>>]),
            "A", [EmptyNode EXCEPT !.entries = <<AIEntry("B")>>]),
        "B", EmptyNode)

SampleRegister == Register(<<NewRisk(7)>>)

FilesValues == { JVal(k, IF k = "array" THEN SampleFiles ELSE NoPayload) : k \in JKinds }

WikiValues == { JVal(k, IF k = "object" THEN SampleCache ELSE NoPayload) : k \in JKinds }

RiskValues == { JVal("object", SampleRegister), JVal("null", NoPayload), AbsentVal }

\* files the user can pick: unparseable text, a top-level null, snapshots
\* with every kind of files value, with every kind of wiki value, with both
\* members missing, and well-formed snapshots with every kind of riskData
SampleDocs ==
    {BadJsonDoc, NullDoc, ObjDoc(AbsentVal, AbsentVal, AbsentVal)}
      \cup { ObjDoc(f, JVal("object", SampleCache), JVal("object", SampleRegister)) : f \in FilesValues }
      \cup { ObjDoc(JVal("array", SampleFiles), w, JVal("object", SampleRegister)) : w \in WikiValues }
      \cup { ObjDoc(JVal("array", SampleFiles), JVal("object", SampleCache), r) : r \in RiskValues }

\* typeof v === 'object'
TypeofObject(v) == v.k \in {"object", "array", "null"}

\* parsed && Array.isArray(parsed.files) && typeof parsed.wiki === 'object'
ImportAccepts(d) ==
    /\ d.top = "object"
    /\ d.files.k = "array"
    /\ TypeofObject(d.wiki)

\* the graph the application holds after setWikiCache(v); an array is stored
\* as it is and has no node names
CacheOf(v) ==
    IF v.k = "object" THEN v.v
    ELSE IF v.k = "null" THEN NullCache
    ELSE EmptyCache

\* if (parsed.riskData) setRiskData(parsed.riskData)
ImportRisk(d, rd) ==
    IF d.riskData.k = "object" THEN d.riskData.v ELSE rd

AppState == [files |-> files, wiki |-> wikiCache, riskData |-> riskData, path |-> wikiPath]

NoState == [files |-> << >>, wiki |-> EmptyCache, riskData |-> NullRisk, path |-> <<ROOT>>]

NoImport == [op |-> "none", accepted |-> FALSE, wellFormed |-> FALSE, fromExport |-> FALSE,
             before |-> NoState]

AppInit ==
    /\ riskData = NullRisk
    /\ rendered = "ok"
    /\ exported = NoDoc
    /\ exportedFrom = NoState
    /\ lastImport = NoImport

handleExportContext ==
    /\ rendered = "ok"
    /\ exported' = ExportDoc(files, wikiCache, riskData)
    /\ exportedFrom' = AppState
    /\ UNCHANGED <<riskData, rendered, lastImport>>
    /\ UNCHANGED <<chunkVars, ingestVars, sessionVars, wikiVars, sugVars, libVars, toolVars, chatVars>>

\* reader.onload of handleImportContext, for a file the user picks: the last
\* exported one or any other
handleImportContext ==
    /\ rendered = "ok"
    /\ \E d \in SampleDocs \cup ({exported} \ {NoDoc}) :
         /\ IF ImportAccepts(d)
            THEN /\ files' = d.files.v
                 /\ wikiCache' = CacheOf(d.wiki)
                 /\ riskData' = ImportRisk(d, riskData)
                 /\ wikiPath' = <<ROOT>>
            ELSE UNCHANGED <<files, wikiCache, riskData, wikiPath>>
         /\ lastImport' = [op |-> "context",
                           accepted |-> ImportAccepts(d),
                           wellFormed |-> d.top = "object" /\ d.files.k = "array" /\ d.wiki.k = "object",
                           fromExport |-> d = exported,
                           before |-> IF ImportAccepts(d) THEN NoState ELSE AppState]
    /\ rendered' = "pending"
    /\ lastOp' = Op("import", NoTerm, NoTerm, "")
    /\ UNCHANGED <<exported, exportedFrom, expandPending, wops>>
    /\ UNCHANGED <<chatSession, currentFileContextHash, created, spc, lastSend>>
    /\ UNCHANGED <<chunkVars, ingestVars, sugVars, libVars, toolVars, chatVars>>

\* what JSON.parse gives for a graph file
WikiDocs == { JVal(k, IF k = "object" THEN SampleCache ELSE NoPayload) : k \in JKinds \ {"absent"} }
               \cup {JVal("badjson", NoPayload)}

\* typeof parsed === 'object' && parsed !== null
ImportWikiAccepts(v) == v.k \in {"object", "array"}

\* reader.onload of handleImportWiki
handleImportWiki ==
    /\ rendered = "ok"
    /\ \E v \in WikiDocs :
         /\ IF ImportWikiAccepts(v)
            THEN /\ wikiCache' = CacheOf(v)
                 /\ wikiPath' = <<ROOT>>
            ELSE UNCHANGED <<wikiCache, wikiPath>>
         /\ lastImport' = [op |-> "wiki",
                           accepted |-> ImportWikiAccepts(v),
                           wellFormed |-> v.k = "object",
                           fromExport |-> FALSE,
                           before |-> IF ImportWikiAccepts(v) THEN NoState ELSE AppState]
    /\ rendered' = "pending"
    /\ lastOp' = Op("importWiki", NoTerm, NoTerm, "")
    /\ UNCHANGED <<riskData, exported, exportedFrom, expandPending, wops>>
    /\ UNCHANGED <<chunkVars, ingestVars, sessionVars, sugVars, libVars, toolVars, chatVars>>

\* React renders App with the new state; reading wikiCache[...] of a null
\* graph throws and the application is unmounted
AppRender ==
    /\ rendered = "pending"
    /\ rendered' = IF wikiCache = NullCache THEN "crashed" ELSE "ok"
    /\ lastImport' = NoImport
    /\ UNCHANGED <<riskData, exported, exportedFrom>>
    /\ UNCHANGED <<chunkVars, ingestVars, sessionVars, wikiVars, sugVars, libVars, toolVars, chatVars>>

(***************************************************************************)
(* runStructuredTool for the report, email and risk tools, and the other   *)
(* handlers that write the risk register                                   *)
(***************************************************************************)
Tools == {"report", "email", "risk"}

\* a RiskItem of a generated matrix
AIRisk ==
    [id |-> 100, source |-> NameA, riskDescription |-> "g", category |-> "Legal",
     probability |-> 4, impact |-> 2, mitigationStrategy |-> "m"]

\* the values JSON.parse returns for a tool's schema
ToolData(tool) ==
    CASE tool = "report" -> {"report1", "report2"}
      [] tool = "email"  -> {"email1"}
      [] tool = "risk"   -> {Register(<< >>), Register(<<AIRisk>>)}

\* handleUpdateRisk: the item with the edited item's id is replaced by it
handleUpdateRisk ==
    /\ rendered = "ok"
    /\ \E k \in 1..Len(riskData.risks), probability \in {1, 5} :
         LET updatedRisk == [riskData.risks[k] EXCEPT !.probability = probability]
         IN  riskData' = IF riskData.t = "null" THEN riskData
                         ELSE [riskData EXCEPT !.risks =
                                 [j \in 1..Len(riskData.risks) |->
                                    IF riskData.risks[j].id = updatedRisk.id
                                    THEN updatedRisk ELSE riskData.risks[j]]]
    /\ lastTool' = NoToolLog
    /\ UNCHANGED <<rendered, exported, exportedFrom, lastImport>>
    /\ UNCHANGED <<isLoading, toolCall, reportData, emailData>>
    /\ UNCHANGED <<chunkVars, ingestVars, sessionVars, wikiVars, sugVars, libVars, chatVars>>

\* every Generate button is disabled while isLoading is set, and the risk
\* view offers "2. Generate Matrix" only in its review step, which it leaves
\* for good as soon as the register holds an item.
\* runStructuredTool up to its await
runStructuredToolStart ==
    /\ rendered = "ok"
    /\ ~isLoading
    /\ toolCall = NoTool
    /\ expandPending = NoTerm
    /\ \E tool \in Tools :
         /\ tool = "risk" => Len(riskData.risks) = 0
         /\ toolCall' = tool
    /\ isLoading' = TRUE
    /\ lastTool' = NoToolLog
    /\ UNCHANGED <<reportData, emailData>>
    /\ UNCHANGED <<chunkVars, ingestVars, sessionVars, wikiVars, sugVars, appVars, libVars, chatVars>>

\* generateStructuredResponse settles: onSuccess(data) stores the value, or
\* the catch logs e.message; then the finally
runStructuredToolReturn ==
    /\ toolCall # NoTool
    /\ \E resp \in StructResponses, data \in ToolData(toolCall) :
         LET result == generateStructuredResponse(resp)
             stored(tool, old) == IF result.ok /\ toolCall = tool THEN data ELSE old
         IN  /\ reportData' = stored("report", reportData)
             /\ emailData' = stored("email", emailData)
             /\ riskData' = stored("risk", riskData)
             /\ lastTool' = [tool |-> toolCall, resp |-> resp, ok |-> result.ok,
                             logged |-> result.message, before |-> Outputs]
    /\ toolCall' = NoTool
    /\ isLoading' = FALSE
    /\ UNCHANGED <<rendered, exported, exportedFrom, lastImport>>
    /\ UNCHANGED <<chunkVars, ingestVars, sessionVars, wikiVars, sugVars, libVars, chatVars>>

(***************************************************************************)
(* FileUploader.processFiles, and the App's ingestion of the documents it  *)
(* hands over (handleAddFiles, ingestFile, handleGenerateSummary).  A      *)
(* document's name stands for its id.                                      *)
(***************************************************************************)
MaxBatch == 2      \* files picked in one upload

Lower(ch) == CASE ch = "E" -> "e" [] ch = "M" -> "m" [] ch = "D" -> "d" [] OTHER -> ch

\* s.toLowerCase()
ToLower(s) == StrConcatAll([k \in 1..Len(s) |-> Rep(Lower(s[k].c), s[k].n)])

\* '.' + file.name.split('.').pop()?.toLowerCase()
ExtOf(name) ==
    LET lastDot == StrLastIndexOf(name, ".", StrLen(name))
    IN  StrCat(Rep(".", 1), ToLower(StrSlice(name, lastDot + 1, StrLen(name))))

EXT_PDF  == StrOf(<<".", "p", "d", "f">>)
EXT_DOCX == StrOf(<<".", "d", "o", "c", "x">>)
EXT_XLSX == StrOf(<<".", "x", "l", "s", "x">>)
EXT_PPTX == StrOf(<<".", "p", "p", "t", "x">>)

SUPPORTED_EXTENSIONS ==
    { StrOf(<<".", "t", "x", "t">>), StrOf(<<".", "m", "d">>),
      StrOf(<<".", "j", "s", "o", "n">>), StrOf(<<".", "c", "s", "v">>),
      StrOf(<<".", "j", "s">>), StrOf(<<".", "t", "s">>),
      StrOf(<<".", "t", "s", "x">>), StrOf(<<".", "p", "y">>),
      StrOf(<<".", "h", "t", "m", "l">>), StrOf(<<".", "c", "s", "s">>),
      StrOf(<<".", "j", "a", "v", "a">>), StrOf(<<".", "c">>),
      StrOf(<<".", "c", "p", "p">>),
      EXT_PDF, EXT_DOCX, EXT_XLSX, EXT_PPTX }

\* file.type.startsWith('text/')
IsTextType(type) == StrPrefix(type, 5) = StrOf(<<"t", "e", "x", "t", "/">>)

\* what processFiles does with one file of the batch: whether it is pushed
\* to newFiles and the level of the log line written for it; file.parses is
\* whether the office-document parser succeeds on it
ProcessOne(file) ==
    LET ext == ExtOf(file.name)
    IN  IF ext = EXT_PDF THEN [added |-> TRUE, level |-> "success"]
        ELSE IF ext \in {EXT_DOCX, EXT_XLSX, EXT_PPTX}
             THEN IF file.parses THEN [added |-> TRUE, level |-> "success"]
                  ELSE [added |-> FALSE, level |-> "error"]
        ELSE IF IsTextType(file.type) \/ ext \in SUPPORTED_EXTENSIONS
             THEN [added |-> TRUE, level |-> "success"]
        ELSE [added |-> FALSE, level |-> "warning"]

TextPlain == StrOf(<<"t", "e", "x", "t", "/", "p", "l", "a", "i", "n">>)

\* the files a user may pick: a text file, a file whose extension is not on
\* the list but whose MIME type is text/xml, an image, an upper-case
\* extension with an empty MIME type, and a corrupt Word document
PickedFiles ==
    { [name |-> NameA, type |-> TextPlain, parses |-> TRUE],
      [name |-> StrOf(<<"c", ".", "x", "m", "l">>),
       type |-> StrOf(<<"t", "e", "x", "t", "/", "x", "m", "l">>), parses |-> TRUE],
      [name |-> StrOf(<<"d", ".", "p", "n", "g">>),
       type |-> StrOf(<<"i", "m", "a", "g", "e", "/", "p", "n", "g">>), parses |-> TRUE],
      [name |-> StrOf(<<"E", ".", "M", "D">>), type |-> EmptyStr, parses |-> TRUE],
      [name |-> StrOf(<<"g", ".", "d", "o", "c", "x">>), type |-> EmptyStr,
       parses |-> FALSE] }

\* the FileList of one upload: distinct files, in any order (newFiles is
\* filled in the order the readers finish)
Batches ==
    { b \in UNION { [1..k -> PickedFiles] : k \in 1..MaxBatch } :
        \A i, j \in 1..Len(b) : i # j => b[i] # b[j] }

\* newFiles: the LocalFile made for every file that was read
NewFiles(batch) ==
    LET kept == SelectSeq(batch, LAMBDA f : ProcessOne(f).added)
    IN  [k \in 1..Len(kept) |-> [name |-> kept[k].name, size |-> 1, processed |-> FALSE]]

ListedNames(fs) == { fs[i].name : i \in 1..Len(fs) }

NoName == << >>

NoUpload == [batch |-> << >>, added |-> {}, levels |-> << >>]

NoIngest == [file |-> NoName, outcome |-> "none"]

LibInit ==
    /\ ingestCalls = << >>
    /\ processingIds = {}
    /\ lastUpload = NoUpload
    /\ lastIngest = NoIngest

\* processFiles, and handleAddFiles (called through onFilesAdded when a file
\* was read) up to its first await: the files are appended to the list and
\* ingestFile is entered for the first of them
processFiles ==
    /\ rendered = "ok"
    /\ \E batch \in Batches :
         LET newFiles == NewFiles(batch)
         IN  /\ Len(files) + Len(newFiles) <= MaxFiles
             /\ \A k \in 1..Len(newFiles) : newFiles[k].name \notin ListedNames(files)
             /\ lastUpload' = [batch  |-> batch,
                               added  |-> ListedNames(newFiles),
                               levels |-> [k \in 1..Len(batch) |-> ProcessOne(batch[k]).level]]
             /\ IF Len(newFiles) > 0
                THEN /\ files' = files \o newFiles
                     /\ ingestCalls' = Append(ingestCalls,
                                              [file |-> newFiles[1].name,
                                               rest |-> [k \in 1..(Len(newFiles) - 1) |->
                                                            newFiles[k + 1].name]])
                     /\ processingIds' = processingIds \cup {newFiles[1].name}
                ELSE UNCHANGED <<files, ingestCalls, processingIds>>
    /\ lastIngest' = NoIngest
    /\ UNCHANGED <<chatSession, currentFileContextHash, created, spc, lastSend>>
    /\ UNCHANGED <<chunkVars, ingestVars, wikiVars, sugVars, appVars, toolVars, chatVars>>

\* the outcomes of processDocumentIngestion, which never rejects: extracted
\* data, or the placeholder record of a whole-document failure
IngestOutcomes == {"data", "placeholder"}

\* the Library view shows "Retry Ingestion" for a document that is neither
\* being processed nor carries processedData
RetryShown(f) == f.name \notin processingIds /\ ~f.processed

\* the button calls handleGenerateSummary, which enters ingestFile
handleGenerateSummary ==
    /\ rendered = "ok"
    /\ \E i \in 1..Len(files) :
         /\ RetryShown(files[i])
         /\ ingestCalls' = Append(ingestCalls, [file |-> files[i].name, rest |-> << >>])
         /\ processingIds' = processingIds \cup {files[i].name}
    /\ lastUpload' = NoUpload
    /\ lastIngest' = NoIngest
    /\ UNCHANGED sessionVars
    /\ UNCHANGED <<chunkVars, ingestVars, wikiVars, sugVars, appVars, toolVars, chatVars>>

\* processDocumentIngestion resolves for one of the running calls: ingestFile
\* stores the record and clears the flag, and the loop of handleAddFiles, if
\* the call belongs to one, enters ingestFile for its next file
ingestFileReturn ==
    /\ \E k \in 1..Len(ingestCalls), outcome \in IngestOutcomes :
         LET call == ingestCalls[k]
         IN  /\ files' = [i \in 1..Len(files) |->
                            IF files[i].name = call.file
                            THEN [files[i] EXCEPT !.processed = TRUE]
                            ELSE files[i]]
             /\ IF call.rest = << >>
                THEN /\ ingestCalls' = SubSeq(ingestCalls, 1, k - 1)
                                       \o SubSeq(ingestCalls, k + 1, Len(ingestCalls))
                     /\ processingIds' = processingIds \ {call.file}
                ELSE /\ ingestCalls' = [ingestCalls EXCEPT
                                          ![k] = [file |-> Head(call.rest),
                                                  rest |-> Tail(call.rest)]]
                     /\ processingIds' = (processingIds \ {call.file})
                                         \cup {Head(call.rest)}
             /\ lastIngest' = [file |-> call.file, outcome |-> outcome]
    /\ lastUpload' = NoUpload
    /\ UNCHANGED <<chatSession, currentFileContextHash, created, spc, lastSend>>
    /\ UNCHANGED <<chunkVars, ingestVars, wikiVars, sugVars, appVars, toolVars, chatVars>>

(***************************************************************************)
(* Chat view: Chat.handleSubmit, handleSendMessage and the callbacks it    *)
(* hands to streamGeminiResponse.  A message text is a sequence of text    *)
(* fragments; the position of a bot message in the list stands for its id. *)
(***************************************************************************)
MaxSends        == 2      \* messages sent in one behaviour
MaxStreamChunks == 2      \* chunks one response stream yields

UserMessage == [sender |-> "user", text |-> << "q" >>, isError |-> FALSE]

\* { id: botMsgId, sender: Sender.BOT, text: "" }
EmptyBotMessage == [sender |-> "bot", text |-> << >>, isError |-> FALSE]

\* chunk.text of one chunk of the stream; "" for a chunk without text
ChunkTexts == {"", "x"}

\* err.message of what sendMessageStream or the stream throws
ErrorMessages == {<< >>, << "503" >>}

MSG_CONTACT == << "An error occurred while contacting Gemini." >>

\* (chunk) => setMessages(prev => prev.map(msg => msg.id === botMsgId ? ...))
onChunk(prev, botMsgId, chunk) ==
    [i \in 1..Len(prev) |->
        IF i = botMsgId THEN [prev[i] EXCEPT !.text = prev[i].text \o << chunk >>]
        ELSE prev[i]]

\* (err) => setMessages(prev => prev.map(msg => msg.id === botMsgId ? ...))
onError(prev, botMsgId, err) ==
    [i \in 1..Len(prev) |->
        IF i = botMsgId
        THEN [prev[i] EXCEPT !.text = << "Error: " >> \o err, !.isError = TRUE]
        ELSE prev[i]]

InTryAlways(send) == TRUE

\* the call is inside the try block of streamGeminiResponse: it awaits
\* sendMessageStream or iterates the stream
InTry(send) == send.pc \in {"opening", "streaming"}

ChatInit ==
    /\ messages = << >>
    /\ sends = << >>

\* Chat.handleSubmit returns at once while isLoading is set.
\* handleSendMessage, and streamGeminiResponse up to its await
handleSendMessage ==
    /\ rendered = "ok"
    /\ ~isLoading
    /\ Len(sends) < MaxSends
    /\ NeedsNewSession(files) => created < MaxSessions
    /\ messages' = messages \o << UserMessage, EmptyBotMessage >>
    /\ isLoading' = TRUE
    /\ IF NeedsNewSession(files)
       THEN /\ chatSession' = [id |-> created + 1, seed |-> Pairs(files),
                               sys |-> getSystemInstruction(files)]
            /\ currentFileContextHash' = generateFileHash(files)
            /\ created' = created + 1
       ELSE UNCHANGED <<chatSession, currentFileContextHash, created>>
    /\ sends' = Append(sends, [botMsgId |-> Len(messages) + 2, pc |-> "opening",
                               chunks |-> 0, signals |-> << >>, delivered |-> << >>])
    /\ UNCHANGED <<files, spc, lastSend>>
    /\ UNCHANGED <<toolCall, reportData, emailData, lastTool>>
    /\ UNCHANGED <<chunkVars, ingestVars, wikiVars, sugVars, appVars, libVars>>

\* line 290: sendMessageStream resolves with the stream
StreamOpen(k) ==
    /\ k <= Len(sends)
    /\ sends[k].pc = "opening"
    /\ sends' = [sends EXCEPT ![k].pc = "streaming"]
    /\ UNCHANGED messages
    /\ UNCHANGED <<chunkVars, ingestVars, sessionVars, wikiVars, sugVars, appVars, libVars, toolVars>>

\* lines 292-295: the stream yields a chunk; onChunk is called if it has text
StreamChunk(k) ==
    /\ k <= Len(sends)
    /\ sends[k].pc = "streaming"
    /\ sends[k].chunks < MaxStreamChunks
    /\ \E chunk \in ChunkTexts :
         IF chunk # ""
         THEN /\ messages' = onChunk(messages, sends[k].botMsgId, chunk)
              /\ sends' = [sends EXCEPT ![k].chunks = @ + 1,
                                        ![k].signals = Append(@, "delta"),
                                        ![k].delivered = Append(@, chunk)]
         ELSE /\ messages' = messages
              /\ sends' = [sends EXCEPT ![k].chunks = @ + 1]
    /\ UNCHANGED <<chunkVars, ingestVars, sessionVars, wikiVars, sugVars, appVars, libVars, toolVars>>

\* line 296: the stream is exhausted and onComplete is called
StreamEnd(k) ==
    /\ k <= Len(sends)
    /\ sends[k].pc = "streaming"
    /\ sends' = [sends EXCEPT ![k].pc = "done", ![k].signals = Append(@, "complete")]
    /\ isLoading' = FALSE
    /\ UNCHANGED messages
    /\ UNCHANGED <<toolCall, reportData, emailData, lastTool>>
    /\ UNCHANGED <<chunkVars, ingestVars, sessionVars, wikiVars, sugVars, appVars, libVars>>

\* lines 298-301: sendMessageStream or the stream throws; the catch calls
\* onError(err.message || "An error occurred while contacting Gemini.")
StreamThrow(k) ==
    /\ k <= Len(sends)
    /\ InTry(sends[k])
    /\ \E message \in ErrorMessages :
         messages' = onError(messages, sends[k].botMsgId,
                             IF message = << >> THEN MSG_CONTACT ELSE message)
    /\ sends' = [sends EXCEPT ![k].pc = "done", ![k].signals = Append(@, "error")]
    /\ isLoading' = FALSE
    /\ UNCHANGED <<toolCall, reportData, emailData, lastTool>>
    /\ UNCHANGED <<chunkVars, ingestVars, sessionVars, wikiVars, sugVars, appVars, libVars>>

(***************************************************************************)
(* Specifications.  Each one runs one component and holds the others at    *)
(* rest.                                                                   *)
(***************************************************************************)
ChunkRest ==
    /\ ctext = EmptyStr
    /\ cmax = 1
    /\ cpieces = << >>
    /\ cdone = FALSE

IngestRest ==
    /\ ipc = "idle"
    /\ doc = [isPDF |-> FALSE, content |-> EmptyStr]
    /\ chunks = << >>
    /\ results = << >>
    /\ inflight = {}
    /\ issued = << >>
    /\ responses = << >>
    /\ ret = NoValue
    /\ raised = FALSE
    /\ caught = FALSE

Init == ChunkInit /\ IngestRest /\ SessionInit /\ WikiInit /\ SuggestInit /\ AppInit /\ LibInit /\ ToolInit /\ ChatInit

Next == CallChunkText

Spec == Init /\ [][Next]_vars

InitIngest == ChunkRest /\ IngestInit /\ SessionInit /\ WikiInit /\ SuggestInit /\ AppInit /\ LibInit /\ ToolInit /\ ChatInit

NextIngest ==
    \/ IngestSingle
    \/ SingleReturn
    \/ IngestChunked
    \/ LoopIssue
    \/ LoopReturn
    \/ IngestAggregate

SpecIngest == InitIngest /\ [][NextIngest]_vars

InitSession == ChunkRest /\ IngestRest /\ SessionInit /\ WikiInit /\ SuggestInit /\ AppInit /\ LibInit /\ ToolInit /\ ChatInit

NextSession ==
    \/ handleAddFiles
    \/ handleRemoveFile
    \/ ingestFileSuccess
    \/ SendStart
    \/ SendAwait
    \/ StreamComplete
    \/ StreamError
    \/ resetChatSession

SpecSession == InitSession /\ [][NextSession]_vars

\* the graph component, run on an application that holds one document
InitWiki ==
    /\ ChunkRest /\ IngestRest
    /\ files = <<[name |-> NameA, size |-> 1, processed |-> TRUE]>>
    /\ chatSession = NullSession
    /\ currentFileContextHash = EmptyStr
    /\ created = 0
    /\ spc = "idle"
    /\ lastSend = NoSend
    /\ WikiInit /\ SuggestInit /\ AppInit /\ LibInit /\ ToolInit /\ ChatInit

NextWiki ==
    \/ handleWikiAddManualEntry
    \/ handleWikiMoveNode
    \/ handleWikiDrillDown
    \/ handleWikiBack
    \/ handleWikiHome
    \/ WikiGenerateStart
    \/ WikiGenerateSuccess
    \/ WikiGenerateFailure
    \/ handleWikiUpdateContent
    \/ handleWikiAddFile

SpecWiki == InitWiki /\ [][NextWiki]_vars

InitSuggest == ChunkRest /\ IngestRest /\ SessionInit /\ WikiInit /\ SuggestInit /\ AppInit /\ LibInit /\ ToolInit /\ ChatInit

NextSuggest ==
    \/ handleWikiAddManualEntry
    \/ SuggestStart
    \/ SuggestReturn

SpecSuggest == InitSuggest /\ [][NextSuggest]_vars

InitSnapshot == ChunkRest /\ IngestRest /\ SessionInit /\ WikiInit /\ SuggestInit /\ AppInit /\ LibInit /\ ToolInit /\ ChatInit

NextSnapshot ==
    \/ handleAddFiles
    \/ handleAddRiskFromLibrary
    \/ handleWikiDrillDown
    \/ handleWikiBack
    \/ handleWikiHome
    \/ handleExportContext
    \/ handleImportContext
    \/ handleImportWiki
    \/ AppRender

SpecSnapshot == InitSnapshot /\ [][NextSnapshot]_vars

\* navigation over graphs built by hand or imported
InitNav == ChunkRest /\ IngestRest /\ SessionInit /\ WikiInit /\ SuggestInit /\ AppInit /\ LibInit /\ ToolInit /\ ChatInit

NextNav ==
    \/ handleWikiAddManualEntry
    \/ handleWikiDrillDown
    \/ handleWikiBack
    \/ handleWikiHome
    \/ handleImportContext
    \/ handleImportWiki
    \/ AppRender

SpecNav == InitNav /\ [][NextNav]_vars

\* the uploader and the ingestion of what it hands over
InitLibrary == ChunkRest /\ IngestRest /\ SessionInit /\ WikiInit /\ SuggestInit /\ AppInit /\ LibInit /\ ToolInit /\ ChatInit

NextLibrary ==
    \/ processFiles
    \/ handleGenerateSummary
    \/ ingestFileReturn

SpecLibrary == InitLibrary /\ [][NextLibrary]_vars

\* the structured tools and the risk register
InitTools == ChunkRest /\ IngestRest /\ SessionInit /\ WikiInit /\ SuggestInit /\ AppInit /\ LibInit /\ ToolInit /\ ChatInit

NextTools ==
    \/ handleAddRiskFromLibrary
    \/ handleUpdateRisk
    \/ runStructuredToolStart
    \/ runStructuredToolReturn
    \/ handleWikiUpdateContent
    \/ WikiGenerateStart
    \/ WikiGenerateSuccess
    \/ WikiGenerateFailure

SpecTools == InitTools /\ [][NextTools]_vars

\* the chat view, next to the wiki's parent suggestion
InitChat == ChunkRest /\ IngestRest /\ SessionInit /\ WikiInit /\ SuggestInit /\ AppInit /\ LibInit /\ ToolInit /\ ChatInit

NextChat ==
    \/ handleSendMessage
    \/ \E k \in 1..MaxSends : StreamOpen(k)
    \/ \E k \in 1..MaxSends : StreamChunk(k)
    \/ \E k \in 1..MaxSends : StreamEnd(k)
    \/ \E k \in 1..MaxSends : StreamThrow(k)
    \/ SuggestStart
    \/ SuggestReturn

SpecChat == InitChat /\ [][NextChat]_vars

\* the chat view alone; a stream that was opened is exhausted or throws, and
\* a pending sendMessageStream resolves or throws
NextStream ==
    \/ handleSendMessage
    \/ \E k \in 1..MaxSends : StreamOpen(k)
    \/ \E k \in 1..MaxSends : StreamChunk(k)
    \/ \E k \in 1..MaxSends : StreamEnd(k)
    \/ \E k \in 1..MaxSends : StreamThrow(k)

SpecStream ==
    /\ InitChat
    /\ [][NextStream]_vars
    /\ \A k \in 1..MaxSends : WF_vars(StreamOpen(k) \/ StreamEnd(k) \/ StreamThrow(k))

(***************************************************************************)
(* Chunker properties                                                      *)
(***************************************************************************)

\* C1: concatenating the pieces of chunkText(text, maxSize) in order gives
\* back the text exactly, for every text and every maxSize >= 1.
C1_ChunkRoundTrip == cdone => StrConcatAll(cpieces) = ctext

\* a text that was really split, with one piece cut at a break point before
\* the hard boundary
C1_Witness ==
    /\ cdone
    /\ Len(cpieces) >= 2
    /\ \E k \in 1..(Len(cpieces) - 1) : StrLen(cpieces[k]) < cmax

\* C2: every piece of chunkText(text, maxSize) has length at most maxSize.
C2_PieceWithinMaxSize ==
    cdone => \A k \in 1..Len(cpieces) : StrLen(cpieces[k]) <= cmax

\* C3: a text no longer than maxSize (the empty text included) comes back
\* as exactly one piece, equal to the input.
C3_SmallInputIdentity ==
    (cdone /\ StrLen(ctext) <= cmax) => cpieces = << ctext >>

C3_Witness == cdone /\ StrLen(ctext) = cmax /\ cmax >= 2 /\ Len(ctext) >= 2

(***************************************************************************)
(* Ingestion properties                                                    *)
(***************************************************************************)
Done        == ipc = "done"
SinglePath  == Done /\ chunks = << >>
ChunkedPath == Done /\ chunks # << >>
Merged      == ChunkedPath /\ ~caught

Collections == {"topics", "risks", "keyPoints", "entities"}

IsComplete(v) == v.t = "obj" /\ Fields \subseteq DOMAIN v.o

\* the summary a chunk result carries ("" when it has none)
SummaryOf(r) == IF Has(r, "summary") THEN r.o.summary ELSE EmptyStr

Values(arr) == { arr[k] : k \in 1..Len(arr) }

NoRepeats(arr) == \A i, j \in 1..Len(arr) : arr[i] = arr[j] => i = j

\* number of elements the first k results contribute to field f
RECURSIVE Offset(_, _, _)
Offset(rs, f, k) == IF k = 0 THEN 0 ELSE Offset(rs, f, k - 1) + Len(ArrOf(rs[k], f))

\* C4: whatever each model call does, the record ingest returns has all
\* five fields summary, topics, risks, keyPoints and entities.
C4_StructurallyComplete == Done => IsComplete(ret)

\* C5: ingest never raises; when every extraction call failed the returned
\* record has empty topics, risks, keyPoints and entities; when an exception
\* occurred inside the pipeline the placeholder record is returned.
C5_NeverRaises ==
    /\ ~raised
    /\ Done => ret # NoValue
    /\ (Done /\ \A k \in 1..Len(responses) : responses[k] \in FailedResponses)
          => /\ IsComplete(ret)
             /\ \A f \in Collections : ret.o[f] = << >>
    /\ (Done /\ caught)
          => /\ IsComplete(ret)
             /\ ret.o.summary = ANALYSIS_FAILED
             /\ \A f \in Collections : ret.o[f] = << >>

\* a chunked document all of whose extraction calls failed, in different ways
C5_Witness ==
    /\ ChunkedPath
    /\ Len(responses) >= 2
    /\ \A k \in 1..Len(responses) : responses[k] \in FailedResponses
    /\ \E i, j \in 1..Len(responses) : responses[i] = Throws /\ responses[j] = NoText

\* C6: merged topics and entities hold every value of some chunk result
\* exactly once; merged risks and key points are the per-chunk sequences
\* concatenated in chunk order, duplicates kept.
C6_MergePolicy ==
    Merged =>
      /\ \A f \in {"topics", "entities"} :
            /\ Values(ret.o[f]) = UNION { Values(ArrOf(results[k], f)) : k \in 1..Len(results) }
            /\ NoRepeats(ret.o[f])
      /\ \A f \in {"risks", "keyPoints"} :
            /\ Len(ret.o[f]) = Offset(results, f, Len(results))
            /\ \A k \in 1..Len(results) :
                 SubSeq(ret.o[f], Offset(results, f, k - 1) + 1, Offset(results, f, k))
                    = ArrOf(results[k], f)

\* overlapping topics in two chunks, and the same risk kept twice
C6_Witness ==
    /\ Merged
    /\ Len(ret.o.topics) = 3
    /\ ~NoRepeats(ret.o.risks)
    /\ \E i, j \in 1..Len(results) :
         i # j /\ Values(ArrOf(results[i], "topics")) \cap Values(ArrOf(results[j], "topics")) # {}

AllSummaries == [k \in 1..Len(results) |-> SummaryOf(results[k])]

NonEmptySummaries == SelectSeq(AllSummaries, LAMBDA x : x # EmptyStr)

Capped(joined, actual) ==
    /\ StrLen(joined) > SUMMARY_CAP
          => actual = StrCat(StrSlice(joined, 0, SUMMARY_CAP), SYNTH_MARKER)
    /\ StrLen(joined) <= SUMMARY_CAP => actual = joined
    /\ StrLen(actual) <= SUMMARY_CAP + StrLen(SYNTH_MARKER)

\* C7 (as stated): the merged summary is the per-chunk summaries joined with
\* a blank line, cut to its first 2000 characters plus the synthesis marker
\* when longer than 2000 characters and unchanged otherwise.
C7_Original_JoinAllSummaries ==
    Merged => Capped(StrJoin(AllSummaries, Rep(NL, 2)), ret.o.summary)

\* C7 (amended): the same, for the non-empty per-chunk summaries joined with
\* a blank line; a chunk without a summary contributes neither text nor a
\* separator.
C7_SummaryCap ==
    Merged => Capped(StrJoin(NonEmptySummaries, Rep(NL, 2)), ret.o.summary)

\* a concatenation of 2001 characters, made of two summaries and a separator
C7_Witness ==
    /\ Merged
    /\ Len(NonEmptySummaries) = 2
    /\ StrLen(StrJoin(NonEmptySummaries, Rep(NL, 2))) = SUMMARY_CAP + 1
    /\ StrLen(ret.o.summary) = SUMMARY_CAP + StrLen(SYNTH_MARKER)

\* the chunked path's merge applied to a sequence of chunk results
MergeOf(rs) == IF AggregateThrows(rs) THEN OuterCatch.ret ELSE Aggregate(rs)

\* C8: for a document that needs no chunking, ingest returns what the merge
\* policy gives on the one-element sequence of its single response.
C8_SingleEqualsMergeOfOne ==
    SinglePath => ret = MergeOf(<< processChunk(responses[1]) >>)

C10_ReuseIffSamePairs ==
    spc = "sent" =>
      IF lastSend.hadSession /\ lastSend.pairs = lastSend.seedBefore
      THEN /\ lastSend.reused
           /\ chatSession = lastSend.sessionBefore
      ELSE /\ ~lastSend.reused
           /\ chatSession.id # lastSend.idBefore
           /\ chatSession.seed = lastSend.pairs
           /\ currentFileContextHash = lastSend.hash

NewSessionCreated == spc = "sent" /\ ~lastSend.reused

AllProcessed(fs) == \A k \in 1..Len(fs) : fs[k].processed

SomeProcessed(fs) == \E k \in 1..Len(fs) : fs[k].processed

\* C11 (as stated): a new session gets the summary instruction only if every
\* file of the active set has completed ingestion, and the generic
\* instruction if at least one file has not.
C11_Original_SummariesOnlyIfAll ==
    NewSessionCreated =>
      /\ chatSession.sys.kind = "summaries" => AllProcessed(lastSend.files)
      /\ ~AllProcessed(lastSend.files) => chatSession.sys.kind = "generic"

\* C11 (amended): a new session gets the summary instruction exactly when at
\* least one file of the active set has completed ingestion, and that
\* instruction lists the ingested files only; the generic instruction is
\* used only when no file has completed ingestion.
C11_SummariesIfAny ==
    NewSessionCreated =>
      /\ chatSession.sys.kind = "summaries" <=> SomeProcessed(lastSend.files)
      /\ chatSession.sys.kind = "generic" <=> ~SomeProcessed(lastSend.files)
      /\ \A k \in 1..Len(chatSession.sys.listed) :
           \E j \in 1..Len(lastSend.files) :
              lastSend.files[j].processed /\ lastSend.files[j].name = chatSession.sys.listed[k]
      /\ Len(chatSession.sys.listed)
            = Cardinality({ j \in 1..Len(lastSend.files) : lastSend.files[j].processed })

\* a session created while one file is ingested and another is not
C11_Witness ==
    /\ NewSessionCreated
    /\ SomeProcessed(lastSend.files)
    /\ ~AllProcessed(lastSend.files)
    /\ chatSession.sys.kind = "summaries"

(***************************************************************************)
(* Concept graph properties                                                *)
(***************************************************************************)

\* the names a node record lists as children
Children(c, p) ==
    IF HasNode(c, p) THEN { c[p].entries[k].term : k \in 1..Len(c[p].entries) } ELSE {}

Parents(c, t) == { p \in DOMAIN c : t \in Children(c, p) }

RECURSIVE ReachFrom(_, _, _)
\* the names reachable from the set S along the child relation, in at most n more steps
ReachFrom(c, S, n) ==
    IF n = 0 THEN S
    ELSE ReachFrom(c, S \cup UNION { Children(c, p) : p \in S }, n - 1)

Descendants(c, t) == ReachFrom(c, Children(c, t), Cardinality(Terms))

ReachableFromRoot(c) == ReachFrom(c, {ROOT}, Cardinality(Terms))

\* C12: no term is listed as a child entry under two different parent nodes
\* at the same time.
C12_SingleParent ==
    \A t \in Terms : Cardinality(Parents(wikiCache, t)) <= 1

\* C13: the child relation has no cycle (no node is its own descendant), and
\* every node reachable from ROOT before a move or a manual add is still
\* reachable from ROOT after it.
C13_ForestRootedAtRoot ==
    /\ \A t \in Terms : t \notin Descendants(wikiCache, t)
    /\ lastOp.op \in {"move", "add"} =>
         ReachableFromRoot(lastOp.cacheBefore) \subseteq ReachableFromRoot(wikiCache)

MoveFrom == lastOp.pathBefore[Len(lastOp.pathBefore)]

\* the move's preconditions: different parents, the old one lists the term,
\* the new one does not
MoveApplies ==
    /\ lastOp.op = "move"
    /\ MoveFrom # lastOp.parent
    /\ Lists(NodeOr(lastOp.cacheBefore, MoveFrom), lastOp.term)
    /\ ~Lists(NodeOr(lastOp.cacheBefore, lastOp.parent), lastOp.term)

\* C14: a move whose preconditions hold removes every entry named term from
\* fromParent, makes an entry named term the last and only such entry of
\* toParent, and changes nothing else: the other entries of both parents,
\* their notes and attachments, and every other node record stay as they were.
C14_MoveFrameEffect ==
    MoveApplies =>
      LET before == lastOp.cacheBefore
          from   == MoveFrom
          to     == lastOp.parent
          term   == lastOp.term
          toOld  == NodeOr(before, to)
      IN  /\ DOMAIN wikiCache = DOMAIN before \cup {to}
          /\ ~Lists(wikiCache[from], term)
          /\ wikiCache[from].entries = Without(before[from].entries, term)
          /\ Len(wikiCache[to].entries) = Len(toOld.entries) + 1
          /\ SubSeq(wikiCache[to].entries, 1, Len(toOld.entries)) = toOld.entries
          /\ wikiCache[to].entries[Len(wikiCache[to].entries)].term = term
          /\ Len(Without(wikiCache[to].entries, term)) = Len(wikiCache[to].entries) - 1
          /\ wikiCache[from].content = before[from].content
          /\ wikiCache[from].files = before[from].files
          /\ wikiCache[to].content = toOld.content
          /\ wikiCache[to].files = toOld.files
          /\ \A t \in DOMAIN before \ {from, to} : wikiCache[t] = before[t]

\* a move was applied between two parents that both carry notes or entries
C14_Witness ==
    /\ MoveApplies
    /\ wikiCache # lastOp.cacheBefore
    /\ Len(wikiCache[lastOp.parent].entries) >= 1
    /\ Len(lastOp.cacheBefore[MoveFrom].entries) >= 2

\* C15: a move onto a parent that already lists an entry with the term's
\* name, or onto the parent the term is already under, leaves the whole graph
\* store as it was and raises nothing.
C15_MoveRejected ==
    ( /\ lastOp.op = "move"
      /\ \/ Lists(NodeOr(lastOp.cacheBefore, lastOp.parent), lastOp.term)
         \/ MoveFrom = lastOp.parent )
      => /\ wikiCache = lastOp.cacheBefore
         /\ wikiPath = lastOp.pathBefore
         /\ rendered = "ok"

\* a move onto a different parent that already lists the term was rejected
C15_Witness ==
    /\ lastOp.op = "move"
    /\ MoveFrom # lastOp.parent
    /\ Lists(NodeOr(lastOp.cacheBefore, lastOp.parent), lastOp.term)
    /\ Lists(lastOp.cacheBefore[MoveFrom], lastOp.term)

AddTarget == IF HasNode(lastOp.cacheBefore, lastOp.parent) THEN lastOp.parent ELSE ROOT

C17_SuggestAlwaysAnswers ==
    sugPc = "done" =>
      /\ TooFewNodes(sugNodes) => (sugRet = ROOT /\ sugCalls = 0)
      /\ sugResp.kind \in {"throws", "notext"} => sugRet = ROOT
      /\ sugRet # Undefined

(***************************************************************************)
(* Navigation and snapshot properties                                      *)
(***************************************************************************)

ImportJustRan == rendered = "pending" /\ lastImport.op # "none"

\* C18: the navigation path is never empty and starts at ROOT; a drill-in
\* appends the term, back drops the last element only at depth > 1 and
\* otherwise changes nothing, home and every successful import set [ROOT].
C18_NavigationPath ==
    /\ Len(wikiPath) >= 1
    /\ wikiPath[1] = ROOT
    /\ lastOp.op = "drill" => wikiPath = Append(lastOp.pathBefore, lastOp.term)
    /\ lastOp.op = "back" =>
         /\ Len(lastOp.pathBefore) > 1 =>
               wikiPath = SubSeq(lastOp.pathBefore, 1, Len(lastOp.pathBefore) - 1)
         /\ Len(lastOp.pathBefore) = 1 =>
               (wikiPath = lastOp.pathBefore /\ wikiCache = lastOp.cacheBefore)
    /\ lastOp.op = "home" => wikiPath = <<ROOT>>
    /\ (ImportJustRan /\ lastImport.accepted) => wikiPath = <<ROOT>>

\* back was pressed at depth 1 in a graph that has nodes to go to
C18_Witness ==
    /\ lastOp.op = "back"
    /\ Len(lastOp.pathBefore) = 1
    /\ Len(CurrentEntries) >= 1

C20_ImportAllOrNothing ==
    (ImportJustRan /\ lastImport.op = "context") =>
      /\ ~lastImport.wellFormed => ~lastImport.accepted
      /\ ~lastImport.accepted => AppState = lastImport.before


(***************************************************************************)
(* Chunker: the 80% floor                                                  *)
(***************************************************************************)
\* index in the text of the first character of piece k
RECURSIVE PieceStart(_, _)
PieceStart(pieces, k) ==
    IF k = 1 THEN 0 ELSE PieceStart(pieces, k - 1) + StrLen(pieces[k - 1])

\* the indices of the window of a piece starting at i that hold character ch
\* and lie beyond 80% of the window (the window is probed up to i + maxSize
\* inclusive)
BreakPoints(text, ch, i, maxSize) ==
    { j \in (i + 1)..Min(i + maxSize, StrLen(text) - 1) :
        /\ StrSlice(text, j, j + 1) = Rep(ch, 1)
        /\ 10 * j > 10 * i + 8 * maxSize }

SetMax(S) == CHOOSE p \in S : \A q \in S : q <= p

C21_OneIngestionAtATime == Len(ingestCalls) <= 1

\* C25: of an upload batch, a file is added to the document list only if
\* its extension is on the allow-list; a file with any other extension is
\* skipped with a warning, and the readable files of the batch are added.
C25_AllowListOnly ==
    \A k \in 1..Len(lastUpload.batch) :
        LET f      == lastUpload.batch[k]
            onList == ExtOf(f.name) \in SUPPORTED_EXTENSIONS
        IN  /\ f.name \in lastUpload.added => onList
            /\ ~onList => (f.name \notin lastUpload.added /\ lastUpload.levels[k] = "warning")
            /\ (onList /\ f.parses) => f.name \in lastUpload.added

\* C27: after a whole-document ingestion failure the document is still in
\* the list, its processing flag is cleared, and the retry action is
\* available for it.
C27_RetryAfterFailure ==
    lastIngest.outcome = "placeholder" =>
        \E i \in 1..Len(files) :
            /\ files[i].name = lastIngest.file
            /\ files[i].name \notin processingIds
            /\ RetryShown(files[i])

(***************************************************************************)
(* Chat view                                                               *)
(***************************************************************************)
ActiveStreams == { k \in 1..Len(sends) : sends[k].pc # "done" }

\* C22: from the start of a send to its completion or error signal the chat
\* input stays disabled, so at most one chat stream is active at any time,
\* whatever other tool actions run meanwhile.
C22_SingleStream ==
    /\ ActiveStreams # {} => isLoading
    /\ Cardinality(ActiveStreams) <= 1

\* C23: when a stream fails after text deltas were delivered, the bot
\* message is marked as an error and still starts with the text accumulated
\* from those deltas.
C23_PartialResponseKept ==
    \A k \in 1..Len(sends) :
        LET send == sends[k]
            msg  == messages[send.botMsgId]
        IN  (/\ send.pc = "done"
             /\ send.signals[Len(send.signals)] = "error"
             /\ send.delivered # << >>)
            => /\ msg.isError
               /\ Len(msg.text) >= Len(send.delivered)
               /\ SubSeq(msg.text, 1, Len(send.delivered)) = send.delivered

Terminals(send) == { i \in 1..Len(send.signals) : send.signals[i] \in {"complete", "error"} }

OneTerminalLast(send) ==
    /\ Cardinality(Terminals(send)) <= 1
    /\ Terminals(send) \subseteq {Len(send.signals)}
    /\ send.pc = "done" <=> Terminals(send) # {}

\* C29: every send ends with exactly one terminal signal: the completion
\* callback or the error callback is called, never both and never neither,
\* and no delta is delivered after it.
C29_ExactlyOneTerminal ==
    /\ [](\A k \in 1..Len(sends) : OneTerminalLast(sends[k]))
    /\ \A k \in 1..MaxSends :
          (Len(sends) >= k) ~> (Len(sends) >= k /\ sends[k].pc = "done")

\* one send that failed after two deltas, and one that completed
C29_Witness ==
    /\ Len(sends) >= 2
    /\ sends[1].signals = <<"delta", "delta", "error">>
    /\ sends[2].pc = "done"
    /\ sends[2].signals[Len(sends[2].signals)] = "complete"

(***************************************************************************)
(* Structured tools and the risk register                                  *)
(***************************************************************************)
RiskIds(rd) == { rd.risks[k].id : k \in 1..Len(rd.risks) }

\* C24: a risk item is never deleted by an operation other than an import:
\* every item of the register is still in it, by id, after adding a risk
\* from the library, editing an item, or generating the risk matrix.
C24_NeverAutoDeleted == [][RiskIds(riskData) \subseteq RiskIds(riskData')]_vars

StopClass(finishReason) ==
    IF finishReason = "SAFETY" THEN "safety"
    ELSE IF finishReason = "MAX_TOKENS" THEN "tokens"
    ELSE "other"

\* C26: when a structured generation returns no text, the call fails with a
\* message that tells a safety block, a token-limit stop and any other stop
\* reason apart; the stored outputs (report, email, risk register, wiki
\* entries) are as before the call and the loading flag is cleared.
C26_NoTextFailure ==
    /\ (lastTool.tool # NoTool /\ lastTool.resp.kind = "notext") =>
          /\ ~lastTool.ok
          /\ lastTool.logged # << >>
          /\ \A r \in FinishReasons \ {""} :
                StopClass(r) # StopClass(lastTool.resp.reason)
                    => NoTextMessage(r) # lastTool.logged
          /\ Outputs = lastTool.before
          /\ ~isLoading
    /\ lastOp.op = "expandFailed" =>
          /\ wikiCache = lastOp.cacheBefore
          /\ toolCall = NoTool => ~isLoading

\* the risk-matrix generation stopped at the token limit while the register
\* held an item
C26_Witness ==
    /\ lastTool.tool = "risk"
    /\ lastTool.resp.kind = "notext"
    /\ lastTool.resp.reason = "MAX_TOKENS"
    /\ Len(lastTool.before.risk.risks) > 0

(***************************************************************************)
(* Concept graph: completion of an AI expand                               *)
(***************************************************************************)

\* C28: when an expand requested at node T completes, T's entries are the
\* returned ones, T's notes and attachments are those it had at completion
\* time, and no other node record changes, whatever was edited or displayed
\* while the call ran.
C28_ExpandKeepsNotes ==
    lastOp.op = "expand" =>
        LET T      == lastOp.term
            before == lastOp.cacheBefore
        IN  /\ HasNode(wikiCache, T)
            /\ wikiCache[T].entries \in AIEntryLists
            /\ wikiCache[T].content = NodeOr(before, T).content
            /\ wikiCache[T].files = NodeOr(before, T).files
            /\ DOMAIN wikiCache = DOMAIN before \cup {T}
            /\ \A n \in DOMAIN before \ {T} : wikiCache[n] = before[n]

\* an expand of a node that carries notes and had an entry added by hand
\* completes while another node is on display
C28_Witness ==
    /\ lastOp.op = "expand"
    /\ lastOp.term # CurrentTerm
    /\ HasNode(lastOp.cacheBefore, lastOp.term)
    /\ lastOp.cacheBefore[lastOp.term].content # ""
    /\ lastOp.cacheBefore[lastOp.term].entries # << >>
    /\ wikiCache[lastOp.term].entries # lastOp.cacheBefore[lastOp.term].entries

====
